---------------------------- MODULE Spec2Model ----------------------------
(***************************************************************************)
(* Model of the usd_from_gltf batch tools (tools/ufgbatch): the process    *)
(* pool scheduler of ufgcommon/process.py (run_tasks and its helpers), the *)
(* Task record of ufgcommon/task.py, and the text helpers of               *)
(* ufgcommon/util.py that the scheduler uses.                              *)
(*                                                                         *)
(* Text is a sequence of one-character strings.  An exit code is a Python  *)
(* integer; it is kept as two limbs [hi, lo] with value hi * 65536 + lo    *)
(* and 0 <= lo < 65536, because 0xffffffff and 0xc0000005 do not fit the   *)
(* model checker's integers.                                               *)
(***************************************************************************)
EXTENDS Integers, Sequences, FiniteSets, TLC

VARIABLES
  tasks,          \* run_tasks argument: the job sequence (immutable fields)
  process_count,  \* run_tasks argument
  outcome,        \* per job: what its converter process will do (environment)
  task,           \* per job: the mutable Task fields success, command, output
  processes,      \* the slot array: 0 = (None, None, None), else the job index
  proc,           \* per job: state of its OS process
  dirs,           \* destination directories that exist
  pc,             \* control thread position inside run_tasks
  k,              \* loop index of the current for loop over tasks
  scan,           \* enumerate index inside wait_for_available_process / wait_for_all_processes
  process_avail,  \* value returned by wait_for_available_process (0 = none)
  events,         \* history: the control thread's mkdir / spawn / final events
  ret,            \* run_tasks return value (complete_tasks, failed_tasks, logs, results)
  call,           \* pure-function harness: the function applied and its arguments
  result          \* pure-function harness: the value returned

vars == <<tasks, process_count, outcome, task, processes, proc, dirs, pc, k,
          scan, process_avail, events, ret, call, result>>

schedVars == <<tasks, process_count, outcome, task, processes, proc, dirs, pc,
               k, scan, process_avail, events, ret>>

\* Python's None for a text-valued field: a text no program text equals
None == <<"<None>">>

(***************************************************************************)
(* Bounds of the model.                                                    *)
(***************************************************************************)
MaxTasks == 3
MaxProcs == 2
MaxCpu == 6
MaxRequested == 3
MaxLimit == 3
MaxJobs == 5

(***************************************************************************)
(* Text helpers (Python str operations).                                   *)
(***************************************************************************)
UpperLetters ==
  <<"A","B","C","D","E","F","G","H","I","J","K","L","M",
    "N","O","P","Q","R","S","T","U","V","W","X","Y","Z">>

LowerLetters ==
  <<"a","b","c","d","e","f","g","h","i","j","k","l","m",
    "n","o","p","q","r","s","t","u","v","w","x","y","z">>

DecDigits == <<"0","1","2","3","4","5","6","7","8","9">>

HexDigits == <<"0","1","2","3","4","5","6","7","8","9","A","B","C","D","E","F">>

Whitespace == {" ", "\t", "\n", "\r"}

Range(s) == {s[i] : i \in DOMAIN s}

\* str.lower() on one character
LowerChar(c) ==
  IF \E i \in 1..26 : UpperLetters[i] = c
    THEN LowerLetters[CHOOSE i \in 1..26 : UpperLetters[i] = c]
    ELSE c

\* str.lower()
Lower(s) == [i \in DOMAIN s |-> LowerChar(s[i])]

\* sub in s
Contains(s, sub) ==
  \E i \in 1..(Len(s) - Len(sub) + 1) : SubSeq(s, i, i + Len(sub) - 1) = sub

\* s.startswith(prefix)
StartsWith(s, prefix) ==
  Len(s) >= Len(prefix) /\ SubSeq(s, 1, Len(prefix)) = prefix

\* s.replace(c, '') for a one-character c
RemoveChar(s, c) == SelectSeq(s, LAMBDA x : x # c)

RECURSIVE RStrip(_, _)
\* s.rstrip(chars)
RStrip(s, chars) ==
  IF Len(s) > 0 /\ s[Len(s)] \in chars
    THEN RStrip(SubSeq(s, 1, Len(s) - 1), chars)
    ELSE s

RECURSIVE SplitLinesKeep(_)
\* s.splitlines(True), for text whose only line boundary is "\n"
SplitLinesKeep(s) ==
  IF Len(s) = 0 THEN <<>>
  ELSE IF \E i \in 1..Len(s) : s[i] = "\n"
    THEN LET i == CHOOSE i \in 1..Len(s) :
                    s[i] = "\n" /\ \A j \in 1..(i - 1) : s[j] # "\n"
         IN  <<SubSeq(s, 1, i)>> \o SplitLinesKeep(SubSeq(s, i + 1, Len(s)))
    ELSE <<s>>

\* s.splitlines()
SplitLines(s) ==
  LET ls == SplitLinesKeep(s)
  IN  [i \in DOMAIN ls |-> RStrip(ls[i], {"\n"})]

RECURSIVE Concat(_)
\* ''.join(parts)
Concat(parts) ==
  IF Len(parts) = 0 THEN <<>> ELSE Head(parts) \o Concat(Tail(parts))

(***************************************************************************)
(* Python integers as two limbs, and their formatting.                     *)
(***************************************************************************)
Limb == 65536

Int2(hi, lo) == [hi |-> hi, lo |-> lo]

IsZero(v) == v.hi = 0 /\ v.lo = 0

\* -v
Negate(v) ==
  IF v.lo = 0 THEN Int2(-v.hi, 0) ELSE Int2(-v.hi - 1, Limb - v.lo)

\* v // d and v % d for v >= 0 and 0 < d <= 16
DivSmall(v, d) == Int2(v.hi \div d, ((v.hi % d) * Limb + v.lo) \div d)

ModSmall(v, d) == ((v.hi % d) * Limb + v.lo) % d

RECURSIVE DigitsOf(_, _, _)
\* the digits of v >= 0 in base d, most significant first
DigitsOf(v, d, digits) ==
  IF v.hi = 0 /\ v.lo < d
    THEN <<digits[v.lo + 1]>>
    ELSE DigitsOf(DivSmall(v, d), d, digits) \o <<digits[ModSmall(v, d) + 1]>>

\* '%s' % v
StrInt(v) ==
  IF v.hi < 0 THEN <<"-">> \o DigitsOf(Negate(v), 10, DecDigits)
              ELSE DigitsOf(v, 10, DecDigits)

\* v & 0xffffffff
And32(v) == Int2(v.hi % Limb, v.lo)

\* '%X' % v, v >= 0
FormatX(v) == DigitsOf(v, 16, HexDigits)

AccessViolationCode == Int2(49152, 5)  \* 0xc0000005

\* mutant: no zero padding
uhex32_unpadded(value) == FormatX(And32(value))

\* util.uhex32
uhex32(value) ==
  LET padded == <<"0","0","0","0","0","0","0","0">> \o FormatX(And32(value))
  IN  SubSeq(padded, Len(padded) - 7, Len(padded))

(***************************************************************************)
(* process.get_process_count                                               *)
(***************************************************************************)
Min(a, b) == IF a < b THEN a ELSE b

Max(a, b) == IF a > b THEN a ELSE b

ProcessMaxDefault == 64


\* mutant: process_max is not applied
get_process_count_ignore_max(cpu_count, recommended_count, process_max, num_tasks) ==
  LET pcount == IF recommended_count > 0 THEN recommended_count ELSE cpu_count
  IN  Max(Min(pcount, num_tasks), 1)

\* mutant: a process_max of 0 is taken as a limit of 0
get_process_count_literal_max(cpu_count, recommended_count, process_max, num_tasks) ==
  LET pcount == IF recommended_count > 0 THEN recommended_count ELSE cpu_count
  IN  Max(Min(pcount, Min(process_max, num_tasks)), 1)

\* cpu_count stands for multiprocessing.cpu_count()
get_process_count(cpu_count, recommended_count, process_max, num_tasks) ==
  LET pcount == IF recommended_count > 0 THEN recommended_count ELSE cpu_count
      pmax   == IF process_max > 0 THEN Min(process_max, num_tasks) ELSE num_tasks
  IN  Max(Min(pcount, pmax), 1)


(***************************************************************************)
(* util.py: severities, join_path, get_message_tag                         *)
(***************************************************************************)
SEVERITY_UNKNOWN == -1
SEVERITY_INFO == 0
SEVERITY_WARN == 1
SEVERITY_ERROR == 2

T_ERROR == <<"E","R","R","O","R">>
T_WARN == <<"W","A","R","N">>
T_INFO == <<"I","N","F","O">>

RECURSIVE join_path(_, _)
\* util.join_path(path0, *pathv)
join_path(path0, pathv) ==
  IF Len(pathv) = 0 THEN path0
  ELSE LET path == IF Len(path0) > 0 /\ path0[Len(path0)] = "/"
                     THEN path0 ELSE path0 \o <<"/">>
       IN  join_path(path \o Head(pathv), Tail(pathv))

\* the character classes [A-Z0-9] and [A-Z0-9_] of TAG_REGEX
TagAlnum == Range(UpperLetters) \cup Range(DecDigits)

TagCodeChar == TagAlnum \cup {"_"}

\* TAG_REGEX.search(line): <<>> when nothing matches, else <<group(0), group(1)>>.
\* The pattern is anchored at the end of the line after optional whitespace, and
\* no character class admits "[", so the match starts at the last "[".
TagSearch(line) ==
  LET body == RStrip(line, Whitespace)
      n    == Len(body)
      opens == {i \in 1..n : body[i] = "["}
  IN  IF n = 0 \/ body[n] # "]" \/ opens = {} THEN <<>>
      ELSE
        LET open == CHOOSE i \in opens : \A j \in opens : j <= i
            inner == SubSeq(body, open + 1, n - 1)
            m == Len(inner)
            unders == {i \in 1..m : inner[i] = "_"}
        IN  IF unders = {} \/ (\E i \in 1..m : inner[i] \notin TagCodeChar) THEN <<>>
            ELSE
              LET u == CHOOSE i \in unders : \A j \in unders : i <= j
                  rest == SubSeq(inner, u + 1, m)
                  words == {w \in {T_INFO, T_WARN, T_ERROR} :
                              /\ StartsWith(rest, w \o <<"_">>)
                              /\ Len(rest) > Len(w) + 1}
              IN  IF u = 1 \/ words = {} THEN <<>>
                  ELSE <<SubSeq(line, open, Len(line)), CHOOSE w \in words : TRUE>>

\* mutant: the warning text is looked for before the error text
get_message_tag_warning_first(line) ==
  LET found == TagSearch(line)
  IN  IF found # <<>>
        THEN LET tag == found[1]
                 code == SubSeq(tag, 2, Len(tag) - 1)
                 severity == found[2]
             IN  IF severity = T_ERROR THEN <<SEVERITY_ERROR, code>>
                 ELSE IF severity = T_WARN THEN <<SEVERITY_WARN, code>>
                 ELSE <<SEVERITY_INFO, code>>
        ELSE LET line_lower == Lower(line)
             IN  IF Contains(line_lower, <<"w","a","r","n","i","n","g",":">>)
                   THEN <<SEVERITY_WARN, None>>
                 ELSE IF Contains(line_lower, <<"e","r","r","o","r",":">>)
                   THEN <<SEVERITY_ERROR, None>>
                 ELSE <<SEVERITY_UNKNOWN, None>>

\* util.get_message_tag(line): (severity, tag code or None)
get_message_tag(line) ==
  LET found == TagSearch(line)
  IN  IF found # <<>>
        THEN LET tag == found[1]
                 code == SubSeq(tag, 2, Len(tag) - 1)
                 severity == found[2]
             IN  IF severity = T_ERROR THEN <<SEVERITY_ERROR, code>>
                 ELSE IF severity = T_WARN THEN <<SEVERITY_WARN, code>>
                 ELSE <<SEVERITY_INFO, code>>
        ELSE LET line_lower == Lower(line)
             IN  IF Contains(line_lower, <<"e","r","r","o","r",":">>)
                   THEN <<SEVERITY_ERROR, None>>
                 ELSE IF Contains(line_lower, <<"w","a","r","n","i","n","g",":">>)
                   THEN <<SEVERITY_WARN, None>>
                 ELSE <<SEVERITY_UNKNOWN, None>>


(***************************************************************************)
(* task.py: the Task record and its log / result text                      *)
(***************************************************************************)
RECURSIVE Replace(_, _, _)
\* s.replace(old, new), old not empty
Replace(s, old, new) ==
  LET At(i) == SubSeq(s, i, i + Len(old) - 1) = old
      starts == {i \in 1..(Len(s) - Len(old) + 1) : At(i)}
  IN  IF starts = {} THEN s
      ELSE LET i == CHOOSE i \in starts : \A j \in starts : i <= j
           IN  SubSeq(s, 1, i - 1) \o new
                 \o Replace(SubSeq(s, i + Len(old), Len(s)), old, new)

\* Task.__init__: the completion state of a new Task
NewTaskState == [success |-> FALSE, command |-> None, output |-> None]

\* Task.format_output(in_path, out_path) on a Task whose output is `output`
format_output(output, in_path, out_path) ==
  IF output = None \/ output = <<>> THEN <<>>
  ELSE
    LET o1 == IF in_path # None /\ in_path # <<>>
                THEN Replace(output, in_path, <<"$","{","I","N","}">>) ELSE output
        o2 == IF out_path # None /\ out_path # <<>>
                THEN Replace(o1, out_path, <<"$","{","O","U","T","}">>) ELSE o1
        ls == SplitLinesKeep(o2)
    IN  <<"\n">> \o Concat([i \in DOMAIN ls |-> <<" "," "," "," ">> \o ls[i]])

\* Task.get_log()
get_log(st) == st.command \o format_output(st.output, None, None)

\* Task.get_result(in_path, out_path)
get_result(tk, st, in_path, out_path) ==
  LET prefix == IF st.success THEN <<"S","u","c","c","e","s","s">> ELSE <<"F","A","I","L","U","R","E">>
  IN  prefix \o <<" ","[">> \o tk.name \o <<"]"," ">> \o tk.src \o <<" ","-","-",">"," ">> \o tk.dst
        \o format_output(st.output, in_path, out_path)

(***************************************************************************)
(* process.py: command text, captured output, finalization                 *)
(***************************************************************************)
\* TASK_SECTION_FORMAT % section
TaskSectionFormat(section) ==
  <<"\n">> \o [i \in 1..36 |-> "-"] \o <<"\n","-","-"," ">>
    \o (IF section = None THEN <<"N","o","n","e">> ELSE section)

RECURSIVE JoinArgs(_, _)
JoinArgs(cmd_args, arg_index) ==
  IF arg_index > Len(cmd_args) THEN <<>>
  ELSE LET arg == cmd_args[arg_index]
           sep == IF arg_index > 1 THEN <<" ">> ELSE <<>>
           txt == IF " " \in Range(arg) THEN <<"\"">> \o arg \o <<"\"">> ELSE arg
       IN  sep \o txt \o JoinArgs(cmd_args, arg_index + 1)

\* process.get_process_command(cmd_args)
get_process_command(cmd_args) == JoinArgs(cmd_args, 1)

\* bytes.decode(errors='ignore'): undecodable bytes are dropped
InvalidByte == "<80>"

Decode(bytes) == SelectSeq(bytes, LAMBDA b : b # InvalidByte)

\* process.get_process_output(cmd_stdout, cmd_stderr)
get_process_output(cmd_stdout, cmd_stderr) ==
  LET t1 == IF cmd_stdout # <<>> THEN RemoveChar(Decode(cmd_stdout), "\r") ELSE <<>>
      t2 == IF cmd_stderr # <<>> THEN RemoveChar(Decode(cmd_stderr), "\r") ELSE <<>>
  IN  RStrip(t1 \o t2, {"\n", "\r"})


\* mutant: only a negative code (a signal) is a failure
ExitSuccessNonNegative(code) == code.hi >= 0

\* code == 0
ExitSuccess(code) == IsZero(code)

\* 'error' not in task.output.lower()
LacksErrorText(output) == ~Contains(Lower(output), <<"e","r","r","o","r">>)

\* the diagnostic appended for a failure without error text
ExitCodeLine(code) ==
  <<"\n","E","R","R","O","R",":"," ","E","x","i","t"," ","c","o","d","e"," ">> \o StrInt(code) \o <<" ","(","0","x">> \o uhex32(code) \o <<")",".">>
    \o (IF And32(code) = AccessViolationCode THEN <<" ","[","A","c","c","e","s","s"," ","V","i","o","l","a","t","i","o","n","]">> ELSE <<>>)

\* process.wait_and_update_task(process, task, cmd_args) for a process that has
\* exited as `oc`: the Task's completion state afterwards
wait_and_update_task(oc, st, cmd_args) ==
  LET code == oc.code
      success == IF ExitSuccess(code) THEN TRUE ELSE st.success
      output == get_process_output(oc.stdout, oc.stderr)
  IN  [success |-> success,
       command |-> get_process_command(cmd_args),
       output  |-> IF (~success) /\ LacksErrorText(output)
                     THEN output \o ExitCodeLine(code) ELSE output]


(***************************************************************************)
(* run_tasks: arguments                                                    *)
(***************************************************************************)
exe == <<"u","f","g">>
exe_args == << <<"-","v">> >>
ext == <<".","u">>
in_path == <<"/","i">>
out_path == <<"/","o">>
\* run_conversion: the CSV lists' names, and csv_count = len(csv_names)
csv_names == << <<"a">>, <<"b">> >>
csv_count == Len(csv_names)

Sections == {None, <<"A">>}

\* The Task that parse_tasks builds for row i of list csv_index under `section`
TaskOf(i, csv_index, section) ==
  [name      |-> <<"t", DecDigits[i + 1]>>,
   src       |-> <<"s", DecDigits[i + 1]>>,
   dst       |-> <<"d", DecDigits[csv_index + 1]>>,
   args      |-> IF i % 2 = 0 THEN << <<"-","n">>, <<"a"," ","b">> >> ELSE <<>>,
   csv_index |-> csv_index,
   section   |-> section]

\* Job sequences as get_csv_tasks returns them: the lists' jobs concatenated
\* in list order
TaskSeqs ==
  LET Shapes == UNION {[1..n -> (0..(csv_count - 1)) \X Sections] : n \in 0..MaxTasks}
      Ordered == {s \in Shapes : \A i \in 1..(Len(s) - 1) : s[i][1] <= s[i + 1][1]}
  IN  {[i \in DOMAIN s |-> TaskOf(i, s[i][1], s[i][2])] : s \in Ordered}

\* What a converter process may do: exit code, stdout, stderr
Outcomes ==
  {[code |-> Int2(0, 0),     stdout |-> <<"o","k","\n">>, stderr |-> <<>>],
   [code |-> Int2(49152, 5), stdout |-> <<>>, stderr |-> <<"x","\r","\n">>]}

NoOutcome == [code |-> Int2(0, 0), stdout |-> None, stderr |-> None]

NoReturn == [complete_tasks |-> <<>>, failed_tasks |-> <<>>, logs |-> <<>>, results |-> <<>>]

NoCall == [fn |-> "none"]

NoResult == [returned |-> FALSE, value |-> 0]

N == Len(tasks)

\* cmd_args of job t (lines 213-219)
CmdArgs(t) ==
  LET task_in_path == join_path(in_path, <<tasks[t].src>>)
      task_out_path == join_path(out_path, <<tasks[t].dst, tasks[t].name \o ext>>)
      a0 == <<exe, task_in_path, task_out_path>>
      a1 == IF exe_args # <<>> THEN a0 \o exe_args ELSE a0
  IN  IF tasks[t].args # <<>> THEN a1 \o tasks[t].args ELSE a1

\* the argument list given to subprocess.Popen (line 221)
PopenArgs(t) == CmdArgs(t) \o << <<"-","-","n","o","u","s","a","g","e">> >>


\* mutant: one slot too many
EmptySlotsExtra(count) == [i \in 1..(count + 1) |-> 0]

\* [(None, None, None)] * process_count
EmptySlots(count) == [i \in 1..count |-> 0]


\* mutant: directories are pre-created only above two processes
PrecreateAboveTwo == process_count > 2

\* if process_count > 1 (line 201)
PrecreateDirectories == process_count > 1

\* mutant: every slot counts as available
SlotAvailableAlways(t) == TRUE

\* (not process) or (process.poll() is not None)
SlotAvailable(t) == IF t = 0 THEN TRUE ELSE proc[t] = "exited"


Event(type, t) == [type |-> type, task |-> t]

\* the jobs in the order they were finalized
Finalized == SelectSeq(events, LAMBDA e : e.type = "final")

\* mutant: the final loop visits the jobs in completion order
CompletionOrder == [i \in 1..Len(Finalized) |-> Finalized[i].task]

\* the jobs in the order the final loop visits them (line 235)
AssembleOrder == [i \in 1..N |-> i]


\* mutant: the else branch is lost
ClassifyAllComplete(acc, t) == [acc EXCEPT !.complete_tasks = Append(@, t)]

\* lines 236-239
Classify(acc, t) ==
  IF task[t].success
    THEN [acc EXCEPT !.complete_tasks = Append(@, t)]
    ELSE [acc EXCEPT !.failed_tasks = Append(@, t)]

RECURSIVE AssembleLoop(_, _, _)
\* lines 235-246: the loop over `order` with the running `section`
AssembleLoop(order, section, acc) ==
  IF order = <<>> THEN acc
  ELSE
    LET t == Head(order)
        c == tasks[t].csv_index + 1
        changed == tasks[t].section # section
        header == IF changed THEN TaskSectionFormat(tasks[t].section) \o <<"\n">> ELSE <<>>
        a1 == Classify(acc, t)
        a2 == [a1 EXCEPT
                 !.logs[c] = @ \o header \o get_log(task[t]) \o <<"\n">>,
                 !.results[c] = @ \o header
                                  \o get_result(tasks[t], task[t], in_path, out_path)
                                  \o <<"\n">>]
    IN  AssembleLoop(Tail(order), tasks[t].section, a2)

(***************************************************************************)
(* run_tasks: the control thread and the converter processes               *)
(***************************************************************************)
Init ==
  /\ tasks \in TaskSeqs
  /\ process_count \in 1..MaxProcs
  /\ outcome = [t \in 1..Len(tasks) |-> NoOutcome]
  /\ task = [t \in 1..Len(tasks) |-> NewTaskState]
  /\ processes = EmptySlots(process_count)
  /\ proc = [t \in 1..Len(tasks) |-> "none"]
  /\ dirs = {}
  /\ pc = "mkdirs"
  /\ k = 1
  /\ scan = 1
  /\ process_avail = 0
  /\ events = <<>>
  /\ ret = NoReturn
  /\ call = NoCall
  /\ result = NoResult

\* lines 202-204, one iteration
MakeDirectory ==
  /\ pc = "mkdirs" /\ PrecreateDirectories /\ k <= N
  /\ dirs' = dirs \cup {join_path(out_path, <<tasks[k].dst>>)}
  /\ events' = Append(events, Event("mkdir", k))
  /\ k' = k + 1
  /\ UNCHANGED <<tasks, process_count, outcome, task, processes, proc, pc, scan,
                 process_avail, ret, call, result>>

\* line 208: enter the spawn loop (or skip it when there are no jobs)
BeginSpawnLoop ==
  /\ pc = "mkdirs" /\ (IF PrecreateDirectories THEN k > N ELSE TRUE)
  /\ pc' = IF N > 0 THEN "wait" ELSE "drain"
  /\ k' = 1 /\ scan' = 1 /\ process_avail' = 0
  /\ UNCHANGED <<tasks, process_count, outcome, task, processes, proc, dirs,
                 events, ret, call, result>>

\* lines 157-162: the scanned slot is free or its process has exited
PollAvailable ==
  /\ pc = "wait" /\ scan <= Len(processes)
  /\ SlotAvailable(processes[scan])
  /\ LET t == processes[scan]
     IN  IF t = 0
           THEN UNCHANGED <<task, events>>
           ELSE /\ task' = [task EXCEPT
                              ![t] = wait_and_update_task(outcome[t], task[t], CmdArgs(t))]
                /\ events' = Append(events, Event("final", t))
  /\ processes' = [processes EXCEPT ![scan] = 0]
  /\ process_avail' = scan
  /\ pc' = "spawn"
  /\ UNCHANGED <<tasks, process_count, outcome, proc, dirs, k, scan, ret, call, result>>

\* lines 157-158: the scanned slot holds a process that has not exited
PollBusy ==
  /\ pc = "wait" /\ scan <= Len(processes)
  /\ ~SlotAvailable(processes[scan])
  /\ scan' = scan + 1
  /\ UNCHANGED <<tasks, process_count, outcome, task, processes, proc, dirs, pc,
                 k, process_avail, events, ret, call, result>>

\* lines 163-165: no slot was available; sleep and scan again
Sleep ==
  /\ pc = "wait" /\ scan > Len(processes)
  /\ scan' = 1
  /\ UNCHANGED <<tasks, process_count, outcome, task, processes, proc, dirs, pc,
                 k, process_avail, events, ret, call, result>>

\* lines 210-224: Popen starts the process of job k
Spawn ==
  /\ pc = "spawn"
  /\ proc' = [proc EXCEPT ![k] = "running"]
  /\ processes' = [processes EXCEPT ![process_avail] = k]
  /\ events' = Append(events, Event("spawn", k))
  /\ IF k < N
       THEN /\ k' = k + 1 /\ pc' = "wait" /\ scan' = 1 /\ process_avail' = 0
       ELSE /\ k' = k /\ pc' = "drain" /\ scan' = 1 /\ process_avail' = process_avail
  /\ UNCHANGED <<tasks, process_count, outcome, task, dirs, ret, call, result>>

\* line 222: Popen raises OSError (the executable cannot be started, fork
\* fails); nothing in run_tasks catches it
SpawnFail ==
  /\ pc = "spawn"
  /\ pc' = "raised"
  /\ UNCHANGED <<tasks, process_count, outcome, task, processes, proc, dirs, k,
                 scan, process_avail, events, ret, call, result>>

\* lines 173-174 with 133-134: an empty slot
DrainEmpty ==
  /\ pc = "drain" /\ scan <= Len(processes)
  /\ processes[scan] = 0
  /\ scan' = scan + 1
  /\ UNCHANGED <<tasks, process_count, outcome, task, processes, proc, dirs, pc,
                 k, process_avail, events, ret, call, result>>


\* mutant: wait_for_all_processes returns after the first occupied slot
DrainStop(slot) == Len(processes) + 1

\* wait_for_all_processes: the slot visited after `slot`
DrainNext(slot) == slot + 1

\* lines 173-174: communicate() returns once the slot's process has exited
DrainCommunicate ==
  /\ pc = "drain" /\ scan <= Len(processes)
  /\ processes[scan] # 0
  /\ LET t == processes[scan]
     IN  /\ proc[t] = "exited"
         /\ task' = [task EXCEPT
                       ![t] = wait_and_update_task(outcome[t], task[t], CmdArgs(t))]
         /\ events' = Append(events, Event("final", t))
  /\ scan' = DrainNext(scan)
  /\ UNCHANGED <<tasks, process_count, outcome, processes, proc, dirs, pc, k,
                 process_avail, ret, call, result>>

\* lines 229-247
Assemble ==
  /\ pc = "drain" /\ scan > Len(processes)
  /\ ret' = AssembleLoop(AssembleOrder, None,
                         [complete_tasks |-> <<>>, failed_tasks |-> <<>>,
                          logs |-> [c \in 1..csv_count |-> <<>>],
                          results |-> [c \in 1..csv_count |-> <<>>]])
  /\ pc' = "done"
  /\ UNCHANGED <<tasks, process_count, outcome, task, processes, proc, dirs, k,
                 scan, process_avail, events, call, result>>

\* A converter process fills a stdout/stderr pipe and blocks in write() until
\* the pipe is read
ProcBlock(t) ==
  /\ proc[t] = "running"
  /\ proc' = [proc EXCEPT ![t] = "blocked"]
  /\ UNCHANGED <<tasks, process_count, outcome, task, processes, dirs, pc, k,
                 scan, process_avail, events, ret, call, result>>

\* communicate() is reading the pipes of job t's process
BeingRead(t) == pc = "drain" /\ scan <= Len(processes) /\ processes[scan] = t

\* A converter process exits
ProcExit(t) ==
  /\ IF proc[t] = "blocked" THEN BeingRead(t) ELSE proc[t] = "running"
  /\ \E oc \in Outcomes : outcome' = [outcome EXCEPT ![t] = oc]
  /\ proc' = [proc EXCEPT ![t] = "exited"]
  /\ UNCHANGED <<tasks, process_count, task, processes, dirs, pc, k, scan,
                 process_avail, events, ret, call, result>>

Next ==
  \/ MakeDirectory
  \/ BeginSpawnLoop
  \/ PollAvailable
  \/ PollBusy
  \/ Sleep
  \/ Spawn
  \/ SpawnFail
  \/ DrainEmpty
  \/ DrainCommunicate
  \/ Assemble
  \/ \E t \in 1..N : ProcExit(t)

Spec == Init /\ [][Next]_vars

(***************************************************************************)
(* get_process_count applied to bounded arguments                          *)
(***************************************************************************)
RequestedValues == (-1..MaxRequested) \cup {10}

LimitValues == (-1..MaxLimit) \cup {ProcessMaxDefault}

InitCount ==
  /\ tasks = <<>> /\ process_count = 1 /\ outcome = <<>> /\ task = <<>>
  /\ processes = EmptySlots(1) /\ proc = <<>> /\ dirs = {} /\ pc = "idle"
  /\ k = 1 /\ scan = 1 /\ process_avail = 0 /\ events = <<>> /\ ret = NoReturn
  /\ call \in [fn : {"get_process_count"}, cpu_count : 1..MaxCpu,
               recommended_count : RequestedValues, process_max : LimitValues,
               num_tasks : 0..MaxJobs]
  /\ result = NoResult

ApplyGetProcessCount ==
  /\ call.fn = "get_process_count" /\ ~result.returned
  /\ result' = [returned |-> TRUE,
                value |-> get_process_count(call.cpu_count, call.recommended_count,
                                            call.process_max, call.num_tasks)]
  /\ UNCHANGED <<schedVars, call>>

SpecCount == InitCount /\ [][ApplyGetProcessCount]_vars


\* A converter process whose output fills a pipe: SpecPipes adds ProcBlock
SpecPipes == Init /\ [][Next \/ \E t \in 1..N : ProcBlock(t)]_vars

(***************************************************************************)
(* wait_and_update_task applied to a new Task and bounded process results  *)
(***************************************************************************)
ExitCodes ==
  {Int2(0, 0), Int2(0, 1), Int2(0, 2), Int2(0, 255), Int2(-1, 65535), Int2(-1, 65525),
   Int2(49152, 5), Int2(-16384, 5)}

Stdouts ==
  {<<>>, <<"o","k","\n">>, <<"0"," ","e","r","r","o","r","s","\n">>, <<"w"," ","[","A","_","W","A","R","N","_","B","]","\n">>, <<"x"," ","[","A","_","E","R","R","O","R","_","B","]","\n">>,
   <<"T","e","r","r","o","r","\n","b","\n">>}

Stderrs == {<<>>, <<"E","r","r","o","r",":"," ","x","\r","\n">>, <<"w","a","r","n","i","n","g",":"," ","z","\n">>}

InitFinalize ==
  /\ tasks = <<>> /\ process_count = 1 /\ outcome = <<>> /\ task = <<>>
  /\ processes = EmptySlots(1) /\ proc = <<>> /\ dirs = {} /\ pc = "idle"
  /\ k = 1 /\ scan = 1 /\ process_avail = 0 /\ events = <<>> /\ ret = NoReturn
  /\ call \in [fn : {"wait_and_update_task"}, code : ExitCodes, stdout : Stdouts,
               stderr : Stderrs]
  /\ result = NoResult

ApplyWaitAndUpdateTask ==
  /\ call.fn = "wait_and_update_task" /\ ~result.returned
  /\ result' = [returned |-> TRUE,
                value |-> wait_and_update_task(
                            [code |-> call.code, stdout |-> call.stdout,
                             stderr |-> call.stderr],
                            NewTaskState, <<exe>>)]
  /\ UNCHANGED <<schedVars, call>>

SpecFinalize == InitFinalize /\ [][ApplyWaitAndUpdateTask]_vars

(***************************************************************************)
(* Properties                                                              *)
(***************************************************************************)
Spawned == SelectSeq(events, LAMBDA e : e.type = "spawn")

Created == SelectSeq(events, LAMBDA e : e.type = "mkdir")

Alive == {t \in 1..N : proc[t] \in {"running", "blocked"}}

Count(seq, x) == Cardinality({i \in DOMAIN seq : seq[i] = x})

\* C1: while run_tasks runs with process_count >= 1, the processes spawned and
\* not yet exited number at most process_count, and the slot array has exactly
\* process_count entries.
C1_BoundedConcurrency ==
  pc # "idle" =>
    /\ Len(processes) = process_count
    /\ Cardinality(Alive) <= process_count

\* every slot holds a live process while a further job waits for a slot
C1_Witness ==
  /\ pc = "wait" /\ process_count >= 2 /\ scan > Len(processes)
  /\ Cardinality(Alive) = process_count

\* C2: every job is spawned exactly once, in input order, and finalized exactly
\* once, only after its own process has exited; when run_tasks returns all jobs
\* have been spawned and finalized, whatever the exit codes.
C2_SpawnOnceFinalizeOnce ==
  pc # "idle" =>
    LET spawned == Spawned
        finalized == Finalized
        done == {finalized[i].task : i \in DOMAIN finalized}
    IN  /\ \A i \in DOMAIN spawned : spawned[i].task = i
        /\ Cardinality(done) = Len(finalized)
        /\ \A i \in DOMAIN events :
             events[i].type = "final" =>
               /\ proc[events[i].task] = "exited"
               /\ \E j \in 1..(i - 1) : events[j] = Event("spawn", events[i].task)
        /\ \A t \in 1..N : (task[t].command # None) <=> (t \in done)
        /\ pc = "done" =>
             /\ Len(spawned) = N
             /\ done = 1..N

\* run_tasks has returned; the first job failed, a later one was admitted and
\* succeeded, and the jobs were finalized out of input order
C2_Witness ==
  /\ pc = "done" /\ N = 3
  /\ ~task[1].success /\ task[3].success
  /\ \E i, j \in DOMAIN Finalized : i < j /\ Finalized[i].task > Finalized[j].task

\* C3: when run_tasks returns, complete_tasks and failed_tasks partition the
\* job sequence, and a job is in complete_tasks iff its success flag is true.
C3_Partition ==
  pc = "done" =>
    /\ Len(ret.complete_tasks) + Len(ret.failed_tasks) = N
    /\ \A t \in 1..N :
         /\ Count(ret.complete_tasks, t) + Count(ret.failed_tasks, t) = 1
         /\ (Count(ret.complete_tasks, t) = 1) <=> task[t].success

C3_Witness ==
  /\ pc = "done"
  /\ Len(ret.complete_tasks) >= 1 /\ Len(ret.failed_tasks) >= 2

\* what finalization leaves on job t, given only how its process exited
SettledTask(t) == wait_and_update_task(outcome[t], NewTaskState, CmdArgs(t))

\* the section header written before job t
HeaderBefore(t) ==
  LET previous == IF t = 1 THEN None ELSE tasks[t - 1].section
  IN  IF tasks[t].section # previous
        THEN TaskSectionFormat(tasks[t].section) \o <<"\n">> ELSE <<>>

ExpectedLog(c) ==
  Concat([t \in 1..N |->
            IF tasks[t].csv_index = c - 1
              THEN HeaderBefore(t) \o get_log(SettledTask(t)) \o <<"\n">>
              ELSE <<>>])

ExpectedResult(c) ==
  Concat([t \in 1..N |->
            IF tasks[t].csv_index = c - 1
              THEN HeaderBefore(t)
                     \o get_result(tasks[t], SettledTask(t), in_path, out_path)
                     \o <<"\n">>
              ELSE <<>>])

\* C4: the per-list log and result texts that run_tasks returns are determined
\* by the job sequence and each job's exit code and output alone (not by the
\* order in which the processes exited or were finalized), with headers and
\* entries in job-sequence order.
C4_TextsInJobOrder ==
  pc = "done" =>
    /\ ret.logs = [c \in 1..csv_count |-> ExpectedLog(c)]
    /\ ret.results = [c \in 1..csv_count |-> ExpectedResult(c)]

\* two jobs of one list were finalized out of input order
C4_Witness ==
  /\ pc = "done"
  /\ \E i, j \in DOMAIN Finalized :
       /\ i < j /\ Finalized[i].task > Finalized[j].task
       /\ tasks[Finalized[i].task].csv_index = tasks[Finalized[j].task].csv_index
  /\ \E c \in 1..csv_count : ret.logs[c] # <<>>

EffectiveRequested == IF call.recommended_count > 0 THEN call.recommended_count
                      ELSE call.cpu_count

CountWithinLimits ==
  /\ 1 <= result.value
  /\ result.value <= EffectiveRequested
  /\ call.process_max > 0 => result.value <= call.process_max
  /\ result.value <= call.num_tasks

\* C5 as stated: for every J >= 0 the count c = get_process_count(P, M, J)
\* satisfies 1 <= c <= min(P_eff, M_eff, J).
C5_Original == result.returned /\ call.fn = "get_process_count" => CountWithinLimits

\* C5 amended: for every J >= 1 the count satisfies 1 <= c <= min(P_eff, M_eff, J);
\* for J = 0 it is 1.
C5_CountWithinLimits ==
  result.returned /\ call.fn = "get_process_count" =>
    IF call.num_tasks >= 1 THEN CountWithinLimits ELSE result.value = 1

\* the limit process_max is what binds
C5_Witness ==
  /\ result.returned /\ call.fn = "get_process_count"
  /\ call.num_tasks >= 3 /\ call.process_max = 2 /\ EffectiveRequested >= 3
  /\ result.value = 2

\* C6: get_process_count(P, M, J) = max(1, min(P_eff, cap)), cap = min(M, J) if
\* M > 0 else J; in particular (10, 64, 3) gives 3, (10, 0, 3) gives 3 and
\* (0, 64, 5) gives min(5, hardware parallelism).
C6_CountFormula ==
  result.returned /\ call.fn = "get_process_count" =>
    LET cap == IF call.process_max > 0 /\ call.process_max < call.num_tasks
                 THEN call.process_max ELSE call.num_tasks
        low == IF EffectiveRequested <= cap THEN EffectiveRequested ELSE cap
    IN  /\ result.value = (IF low >= 1 THEN low ELSE 1)
        /\ (call.recommended_count = 10 /\ call.process_max = 64 /\ call.num_tasks = 3)
             => result.value = 3
        /\ (call.recommended_count = 10 /\ call.process_max = 0 /\ call.num_tasks = 3)
             => result.value = 3
        /\ (call.recommended_count = 0 /\ call.process_max = 64 /\ call.num_tasks = 5)
             => result.value = (IF call.cpu_count < 5 THEN call.cpu_count ELSE 5)

C6_Witness ==
  /\ result.returned /\ call.fn = "get_process_count"
  /\ call.recommended_count = 10 /\ call.process_max = 0 /\ call.num_tasks = 3
  /\ result.value = 3

\* C7: after finalization the success flag is true iff the exit code is exactly
\* zero.
C7_SuccessIffZero ==
  result.returned /\ call.fn = "wait_and_update_task" =>
    (result.value.success <=> call.code = Int2(0, 0))

\* a positive, a negative and the 32-bit crash code each leave the job failed
C7_Witness ==
  /\ result.returned /\ call.fn = "wait_and_update_task"
  /\ call.code \in {Int2(0, 255), Int2(-1, 65525), Int2(49152, 5)}
  /\ ~result.value.success

\* C8 as stated: after finalization, the captured output of every job whose
\* process exited nonzero holds a line that get_message_tag classifies as error
\* severity.
C8_FailedJobHasErrorLine ==
  result.returned /\ call.fn = "wait_and_update_task" /\ call.code # Int2(0, 0) =>
    \E line \in Range(SplitLines(result.value.output)) :
      get_message_tag(line)[1] = SEVERITY_ERROR

\* C9 as stated: once a job has been admitted, no failure to spawn a later job
\* aborts run_tasks.
C9_NoAbortAfterAdmission == Len(Spawned) >= 1 => pc # "raised"

\* C10: with process_count > 1 every job's destination directory is created,
\* one job after the other, before the first process is spawned, and none is
\* created while a process runs.
C10_DirectoriesFirst ==
  pc # "idle" /\ process_count > 1 =>
    LET created == Created
        spawned == Spawned
    IN  /\ \A i, j \in DOMAIN events :
             events[i].type = "spawn" /\ events[j].type = "mkdir" => j < i
        /\ \A i \in DOMAIN created : created[i].task = i
        /\ (pc \in {"spawn", "drain", "done", "raised"} \/ Len(spawned) >= 1) =>
             /\ Len(created) = N
             /\ \A t \in 1..N : join_path(out_path, <<tasks[t].dst>>) \in dirs
        /\ Len(created) < N => \A t \in 1..N : proc[t] = "none"

C10_Witness ==
  /\ process_count > 1 /\ N >= 2
  /\ Len(Spawned) = 1 /\ Len(Created) = N
  /\ Cardinality(dirs) = 2


(***************************************************************************)
(* ufgtest.main: job lists are loaded, the conversion runs, the diff       *)
(* totals are summed and the exit status is returned                       *)
(***************************************************************************)
MaxRows == 2

\* the names a CSV row may give its job
RowNames == {<<"t","1">>, <<"t","2">>}

\* parse_tasks builds Task(row[0], row[1], row[2], task_args, csv_index, section)
RowTask(name, i, csv_index) == [TaskOf(i, csv_index, None) EXCEPT !.name = name]

\* the rows of all CSV files, in file order, as parse_tasks reads them
CsvRowSeqs ==
  LET Shapes == UNION {[1..n -> (0..(csv_count - 1)) \X RowNames] : n \in 0..MaxRows}
      Ordered == {s \in Shapes : \A i \in 1..(Len(s) - 1) : s[i][1] <= s[i + 1][1]}
  IN  {[i \in DOMAIN s |-> RowTask(s[i][2], i, s[i][1])] : s \in Ordered}

\* the names that check_unique_task_names counts more than once, in the order
\* of the names dictionary (first occurrence)
DuplicateNames(ts) ==
  LET firsts == SelectSeq([i \in DOMAIN ts |-> i],
                          LAMBDA i : \A j \in 1..(i - 1) : ts[j].name # ts[i].name)
      dupes == SelectSeq(firsts,
                         LAMBDA i : \E j \in (i + 1)..Len(ts) : ts[j].name = ts[i].name)
  IN  [i \in DOMAIN dupes |-> ts[dupes[i]].name]

RECURSIVE JoinNames(_)
\* dupes: the names joined with ', '
JoinNames(names) ==
  IF Len(names) = 0 THEN <<>>
  ELSE IF Len(names) = 1 THEN names[1]
  ELSE names[1] \o <<","," ">> \o JoinNames(Tail(names))

\* the message check_unique_task_names gives util.error
DuplicateReport(ts) == <<"E","R","R","O","R",":"," ","D","u","p","l","i","c","a","t","e"," ","t","a","s","k","(","s",")",":"," ">> \o JoinNames(DuplicateNames(ts))


\* mutant: names are compared within one CSV list only
check_unique_task_names_per_list(ts) ==
  ~\E i \in DOMAIN ts : \E j \in 1..(i - 1) :
     ts[j].name = ts[i].name /\ ts[j].csv_index = ts[i].csv_index

\* task.check_unique_task_names(tasks): not have_dupes
check_unique_task_names(ts) ==
  ~\E i \in DOMAIN ts : \E j \in 1..(i - 1) : ts[j].name = ts[i].name

\* task.get_csv_tasks(csv_files): the tasks it returns; is_none marks the
\* return of (None, None, None)
get_csv_tasks(rows) ==
  IF ~check_unique_task_names(rows)
    THEN [is_none |-> TRUE, tasks |-> <<>>]
    ELSE [is_none |-> FALSE, tasks |-> rows]

\* not tasks (line 69)
NoTasks(loaded) == IF loaded.is_none THEN TRUE ELSE loaded.tasks = <<>>

\* what diff_with_golden may return for one CSV list: the match, mismatch,
\* missing and extra counts
DiffCounts ==
  {[match |-> 2, mismatch |-> 0, missing |-> 0, extra |-> 0],
   [match |-> 1, mismatch |-> 1, missing |-> 0, extra |-> 0],
   [match |-> 1, mismatch |-> 0, missing |-> 2, extra |-> 0],
   [match |-> 0, mismatch |-> 0, missing |-> 0, extra |-> 1]}

RECURSIVE BitOr(_, _)
\* a | b for a, b >= 0
BitOr(a, b) ==
  IF a = 0 THEN b
  ELSE IF b = 0 THEN a
  ELSE Max(a % 2, b % 2) + 2 * BitOr(a \div 2, b \div 2)

RECURSIVE SumField(_, _)
SumField(counts, field) ==
  IF Len(counts) = 0 THEN 0 ELSE Head(counts)[field] + SumField(Tail(counts), field)


\* mutant: extra files do not set the diff bit
ExitStatusIgnoreExtra(failed_tasks, mismatch_total, missing_total, extra_total) ==
  LET e1 == IF failed_tasks # <<>> THEN BitOr(0, 1) ELSE 0
  IN  IF mismatch_total # 0 \/ missing_total # 0 THEN BitOr(e1, 2) ELSE e1

\* ufgtest.main lines 168-173
ExitStatus(failed_tasks, mismatch_total, missing_total, extra_total) ==
  LET e1 == IF failed_tasks # <<>> THEN BitOr(0, 1) ELSE 0
  IN  IF mismatch_total # 0 \/ missing_total # 0 \/ extra_total # 0
        THEN BitOr(e1, 2) ELSE e1

InitMain ==
  /\ tasks = <<>> /\ process_count = 1 /\ outcome = <<>> /\ task = <<>>
  /\ processes = EmptySlots(1) /\ proc = <<>> /\ dirs = {} /\ pc = "load"
  /\ k = 1 /\ scan = 1 /\ process_avail = 0 /\ events = <<>> /\ ret = NoReturn
  /\ call \in [fn : {"main"}, csv : CsvRowSeqs, processes : 1..MaxProcs,
               nodiff : BOOLEAN, redeploy : BOOLEAN]
  /\ result = NoResult

\* lines 68-70 on duplicate names or no job: get_csv_tasks reports, main returns 1
MainLoadFail ==
  /\ pc = "load"
  /\ LET loaded == get_csv_tasks(call.csv)
     IN  /\ NoTasks(loaded)
         /\ events' = IF loaded.is_none
                        THEN Append(events, Event("error", DuplicateReport(call.csv)))
                        ELSE events
         /\ result' = [returned |-> TRUE, value |-> 1, loaded |-> loaded]
  /\ pc' = "exit"
  /\ UNCHANGED <<tasks, process_count, outcome, task, processes, proc, dirs, k,
                 scan, process_avail, ret, call>>

\* lines 68-112 with unique names: the jobs are handed to run_tasks (lines
\* 177-199) with the process count of get_process_count
MainLoad ==
  /\ pc = "load"
  /\ LET loaded == get_csv_tasks(call.csv)
     IN  /\ ~NoTasks(loaded)
         /\ ~call.redeploy
         /\ tasks' = loaded.tasks
         /\ process_count' = get_process_count(MaxCpu, call.processes,
                                               ProcessMaxDefault, Len(loaded.tasks))
         /\ outcome' = [t \in 1..Len(loaded.tasks) |-> NoOutcome]
         /\ task' = [t \in 1..Len(loaded.tasks) |-> NewTaskState]
         /\ proc' = [t \in 1..Len(loaded.tasks) |-> "none"]
         /\ processes' = EmptySlots(process_count')
  /\ pc' = "mkdirs"
  /\ UNCHANGED <<dirs, k, scan, process_avail, events, ret, call, result>>

\* lines 96-99 and 162-173 with --redeploy: nothing is converted or diffed
MainRedeploy ==
  /\ pc = "load"
  /\ LET loaded == get_csv_tasks(call.csv)
     IN  /\ ~NoTasks(loaded)
         /\ call.redeploy
         /\ result' = [returned |-> TRUE, value |-> ExitStatus(<<>>, 0, 0, 0),
                       loaded |-> loaded, diffs |-> <<>>]
  /\ pc' = "exit"
  /\ UNCHANGED <<tasks, process_count, outcome, task, processes, proc, dirs, k,
                 scan, process_avail, events, ret, call>>

\* lines 110-173 after run_tasks has returned: the per-list diff counts are
\* summed and the exit status is computed
MainFinish ==
  /\ pc = "done" /\ call.fn = "main"
  /\ \E diffs \in [1..csv_count -> DiffCounts] :
       LET counted == IF call.nodiff THEN <<>> ELSE diffs
       IN  result' = [returned |-> TRUE,
                      value |-> ExitStatus(ret.failed_tasks,
                                           SumField(counted, "mismatch"),
                                           SumField(counted, "missing"),
                                           SumField(counted, "extra")),
                      loaded |-> [is_none |-> FALSE, tasks |-> tasks],
                      diffs |-> counted]
  /\ pc' = "exit"
  /\ UNCHANGED <<tasks, process_count, outcome, task, processes, proc, dirs, k,
                 scan, process_avail, events, ret, call>>

NextMain ==
  \/ MainLoadFail
  \/ MainLoad
  \/ MainRedeploy
  \/ MainFinish
  \/ Next

SpecMain == InitMain /\ [][NextMain]_vars


\* the names that more than one row of the loaded lists carries
SharedNames == {n \in RowNames : Cardinality({i \in DOMAIN call.csv : call.csv[i].name = n}) > 1}

\* C11: if two jobs of the loaded lists share a name, get_csv_tasks reports the
\* duplicated names and returns no tasks, and main returns status 1 with no
\* process spawned and no directory created; names pairwise distinct is exactly
\* when check_unique_task_names lets the load go on.
C11_DuplicateNamesAbort ==
  call.fn = "main" =>
    /\ SharedNames # {} =>
         /\ \A i \in DOMAIN events : events[i].type = "error"
         /\ dirs = {} /\ proc = <<>> /\ tasks = <<>>
         /\ pc \in {"load", "exit"}
         /\ pc = "exit" =>
              /\ result.returned /\ result.value = 1 /\ result.loaded.is_none
              /\ Len(events) = 1
              /\ StartsWith(events[1].task, <<"E","R","R","O","R",":"," ","D","u","p","l","i","c","a","t","e"," ","t","a","s","k","(","s",")",":"," ">>)
              /\ \A n \in RowNames : Contains(events[1].task, n) <=> n \in SharedNames
    /\ (SharedNames = {} /\ pc # "load") =>
         /\ \A i \in DOMAIN events : events[i].type # "error"
         /\ result.returned => ~result.loaded.is_none

\* two lists each hold a job of the same name; main has returned 1
C11_Witness ==
  /\ call.fn = "main" /\ pc = "exit" /\ result.value = 1
  /\ \E i, j \in DOMAIN call.csv :
       /\ call.csv[i].name = call.csv[j].name
       /\ call.csv[i].csv_index # call.csv[j].csv_index

\* some job's converter exited with a nonzero code
SomeJobFailed == \E t \in 1..N : outcome[t].code # Int2(0, 0)

\* the summed mismatch, missing or extra count main saw is nonzero
SomeDiff ==
  \E c \in DOMAIN result.diffs :
    result.diffs[c].mismatch + result.diffs[c].missing + result.diffs[c].extra > 0

\* C20: after a conversion run main returns (1 if a job failed, else 0) | (2 if
\* the summed mismatch, missing or extra count is nonzero, else 0); the status
\* is 0 iff no job failed and the three totals are zero.
C20_ExitStatusBits ==
  (call.fn = "main" /\ pc = "exit" /\ N > 0) =>
    /\ result.value = (IF SomeJobFailed THEN 1 ELSE 0) + (IF SomeDiff THEN 2 ELSE 0)
    /\ (result.value = 0) <=> (~SomeJobFailed /\ ~SomeDiff)
    /\ call.nodiff => result.value \in {0, 1}

\* a job failed and a list has an extra file only: both bits are set
C20_Witness ==
  /\ call.fn = "main" /\ pc = "exit" /\ N > 0
  /\ result.value = 3
  /\ \A c \in DOMAIN result.diffs :
       result.diffs[c].mismatch = 0 /\ result.diffs[c].missing = 0


(***************************************************************************)
(* run_tasks under fair scheduling: the control thread keeps running and   *)
(* every converter process that can exit does exit                         *)
(***************************************************************************)
\* the steps of the control thread that finalize no job and build no text
ControlStep ==
  \/ MakeDirectory
  \/ BeginSpawnLoop
  \/ PollBusy
  \/ Sleep
  \/ Spawn
  \/ SpawnFail
  \/ DrainEmpty

\* the converter process of job t exits
ProcessExits(t) == t \in 1..N /\ ProcExit(t)

\* ENABLED PollAvailable, ENABLED DrainCommunicate and ENABLED Assemble: the
\* guards of these actions
CanPollAvailable ==
  pc = "wait" /\ scan <= Len(processes) /\ SlotAvailable(processes[scan])

CanDrainCommunicate ==
  /\ pc = "drain" /\ scan <= Len(processes)
  /\ processes[scan] # 0 /\ proc[processes[scan]] = "exited"

CanAssemble == pc = "drain" /\ scan > Len(processes)

\* Weak fairness of every step of the control thread (for the three steps that
\* finalize or assemble, WF written out with ENABLED given by the guard) and of
\* every process's exit
SpecLive ==
  /\ Init
  /\ [][Next]_vars
  /\ WF_vars(ControlStep)
  /\ ([]<>(~CanPollAvailable)) \/ ([]<><<PollAvailable>>_vars)
  /\ ([]<>(~CanDrainCommunicate)) \/ ([]<><<DrainCommunicate>>_vars)
  /\ ([]<>(~CanAssemble)) \/ ([]<><<Assemble>>_vars)
  /\ \A t \in 1..MaxTasks : WF_vars(ProcessExits(t))

\* C12 as stated: when every spawned process eventually exits, run_tasks
\* eventually admits every job, finalizes every job and returns.
C12_EventuallyReturns ==
  <>(pc = "done" /\ Len(Spawned) = N /\ Len(Finalized) = N)

\* run_tasks ends: it returns with every job admitted and finalized, or it is
\* left by the exception of a failed spawn
RunTasksEnds ==
  <>(\/ pc = "done" /\ Len(Spawned) = N /\ Len(Finalized) = N
     \/ pc = "raised")


(***************************************************************************)
(* get_message_tag applied to bounded log lines                            *)
(***************************************************************************)
LinePrefixes == {<<>>, <<"x"," ">>, <<"e","r","r","o","r",":"," ">>}

LineBodies ==
  {<<"[","F","O","O","_","E","R","R","O","R","_","B","A","R","1","2","3","]">>, <<"[","A","_","W","A","R","N","_","B","]">>, <<"[","A","1","_","I","N","F","O","_","9","]">>, <<"[","a","_","E","R","R","O","R","_","B","]">>,
   <<"[","A","_","B","_","E","R","R","O","R","_","C","]">>, <<"W","a","r","n","i","n","g",":"," ","d","i","s","k"," ","l","o","w">>, <<"W","A","R","N","I","N","G",":"," ","E","r","r","o","r",":"," ","y">>, <<"0"," ","e","r","r","o","r","s">>}

LineSuffixes == {<<>>, <<" ">>, <<"\n">>, <<" ","\t">>, <<" ","x">>}

Lines == {p \o b \o s : p \in LinePrefixes, b \in LineBodies, s \in LineSuffixes}

InitTag ==
  /\ tasks = <<>> /\ process_count = 1 /\ outcome = <<>> /\ task = <<>>
  /\ processes = EmptySlots(1) /\ proc = <<>> /\ dirs = {} /\ pc = "idle"
  /\ k = 1 /\ scan = 1 /\ process_avail = 0 /\ events = <<>> /\ ret = NoReturn
  /\ call \in [fn : {"get_message_tag"}, line : Lines]
  /\ result = NoResult

ApplyGetMessageTag ==
  /\ call.fn = "get_message_tag" /\ ~result.returned
  /\ result' = [returned |-> TRUE, value |-> get_message_tag(call.line)]
  /\ UNCHANGED <<schedVars, call>>

SpecTag == InitTag /\ [][ApplyGetMessageTag]_vars

\* the severity a tag's embedded word names
SeverityOfWord(word) ==
  IF word = T_ERROR THEN SEVERITY_ERROR
  ELSE IF word = T_WARN THEN SEVERITY_WARN
  ELSE SEVERITY_INFO

\* the text between the square brackets of the tag that ends the line
BracketedText(line) ==
  LET tag == RStrip(TagSearch(line)[1], Whitespace)
  IN  SubSeq(tag, 2, Len(tag) - 1)

\* C13 as stated: for every line that matches the tag pattern, also with
\* whitespace after the closing bracket, get_message_tag returns the severity
\* of the embedded word and exactly the text between the brackets.
C13_TagCodeIsBracketedText ==
  (result.returned /\ call.fn = "get_message_tag" /\ TagSearch(call.line) # <<>>) =>
    result.value = <<SeverityOfWord(TagSearch(call.line)[2]), BracketedText(call.line)>>


(***************************************************************************)
(* util.TagTracker: totals per severity and counts per tag                 *)
(***************************************************************************)
SEVERITY_COUNT == 3

\* an empty dict
EmptyDict == [key \in {} |-> 0]

\* TagTracker.__init__
NewTracker ==
  [totals |-> [severity \in 1..SEVERITY_COUNT |-> 0],
   tag_totals |-> [severity \in 1..SEVERITY_COUNT |-> EmptyDict]]


\* util.add_in_dictionary(d, key, value)
add_in_dictionary(d, key, value) ==
  IF key \in DOMAIN d
    THEN [d EXCEPT ![key] = @ + value]
    ELSE [x \in DOMAIN d \cup {key} |-> IF x = key THEN value ELSE d[x]]

\* mutant: a tagged line is counted per tag only
AddLineTagOnly(tracker, severity, tag) ==
  IF tag # None /\ tag # <<>>
    THEN [tracker EXCEPT !.tag_totals[severity + 1] = add_in_dictionary(@, tag, 1)]
    ELSE IF severity # SEVERITY_UNKNOWN
      THEN [tracker EXCEPT !.totals[severity + 1] = @ + 1]
      ELSE tracker

\* the body of the loop of TagTracker.add_from_output for a line that
\* get_message_tag gave `severity` and `tag`; list index `severity` is
\* position severity + 1
AddLine(tracker, severity, tag) ==
  [totals |->
     IF severity # SEVERITY_UNKNOWN
       THEN [tracker.totals EXCEPT ![severity + 1] = @ + 1]
       ELSE tracker.totals,
   tag_totals |->
     IF tag # None /\ tag # <<>>
       THEN [tracker.tag_totals EXCEPT ![severity + 1] = add_in_dictionary(@, tag, 1)]
       ELSE tracker.tag_totals]

\* (severity, tag) = get_message_tag(line), then the body of the loop
AddFound(tracker, found) == AddLine(tracker, found[1], found[2])

RECURSIVE AddLines(_, _)
\* TagTracker.add_from_output: the loop over output.splitlines()
AddLines(tracker, lines) ==
  IF lines = <<>> THEN tracker
  ELSE AddLines(AddFound(tracker, get_message_tag(Head(lines))), Tail(lines))

\* TagTracker.add_from_output(output)
add_from_output(tracker, output) == AddLines(tracker, SplitLines(output))

\* TagTracker.from_output(output)
from_output(output) == add_from_output(NewTracker, output)

RECURSIVE AddItems(_, _, _)
\* for tag, plus_total in items: add_in_dictionary(d, tag, plus_total)
AddItems(d, items, tags) ==
  IF tags = {} THEN d
  ELSE LET tag == CHOOSE x \in tags : TRUE
       IN  AddItems(add_in_dictionary(d, tag, items[tag]), items, tags \ {tag})

\* mutant: a tag both trackers hold takes the count of the argument
add_from_tracker_overwrite(heap, self, tracker) ==
  [heap EXCEPT ![self] =
     [totals |-> [severity \in 1..SEVERITY_COUNT |->
                    heap[self].totals[severity] + heap[tracker].totals[severity]],
      tag_totals |-> [severity \in 1..SEVERITY_COUNT |->
                        [tag \in DOMAIN heap[self].tag_totals[severity]
                                   \cup DOMAIN heap[tracker].tag_totals[severity] |->
                           IF tag \in DOMAIN heap[tracker].tag_totals[severity]
                             THEN heap[tracker].tag_totals[severity][tag]
                             ELSE heap[self].tag_totals[severity][tag]]]]]

\* TagTracker.add_from_tracker on the trackers held in `heap`: the object
\* `self` is updated in place from the object `tracker`
add_from_tracker(heap, self, tracker) ==
  [heap EXCEPT ![self] =
     [totals |-> [severity \in 1..SEVERITY_COUNT |->
                    heap[self].totals[severity] + heap[tracker].totals[severity]],
      tag_totals |-> [severity \in 1..SEVERITY_COUNT |->
                        AddItems(heap[self].tag_totals[severity],
                                 heap[tracker].tag_totals[severity],
                                 DOMAIN heap[tracker].tag_totals[severity])]]]

\* captured outputs the trackers are built from
Outputs ==
  {<<>>,
   <<"p","l","a","i","n","\n","0"," ","e","r","r","o","r","s","\n">>,
   <<"a"," ","[","A","_","E","R","R","O","R","_","B","]","\n","w","a","r","n","i","n","g",":"," ","w","\n">>,
   <<"b"," ","[","A","_","E","R","R","O","R","_","B","]","\n","c"," ","[","A","_","E","R","R","O","R","_","B","]","\n","E","R","R","O","R",":"," ","e","\n","0"," ","e","r","r","o","r","s">>,
   <<"W","a","r","n","i","n","g",":"," ","x"," ","e","r","r","o","r",":"," ","y","\n","e","r","r","o","r",":"," ","[","C","_","W","A","R","N","_","D","]","\n","p","l","a","i","n">>,
   <<"i"," ","[","A","1","_","I","N","F","O","_","9","]","\n","d"," ","[","C","_","W","A","R","N","_","D","]"," ","\n","w"," ","[","C","_","W","A","R","N","_","D","]">>}

InitTracker ==
  /\ tasks = <<>> /\ process_count = 1 /\ outcome = <<>> /\ task = <<>>
  /\ processes = EmptySlots(1) /\ proc = <<>> /\ dirs = {} /\ pc = "idle"
  /\ k = 1 /\ scan = 1 /\ process_avail = 0 /\ events = <<>> /\ ret = NoReturn
  /\ call \in [fn : {"TagTracker"}, a : Outputs, b : Outputs, c : Outputs]
  /\ result = NoResult

\* the trackers A, B, C of the three outputs
Built ==
  [name \in {"A", "B", "C"} |->
     from_output(IF name = "A" THEN call.a ELSE IF name = "B" THEN call.b ELSE call.c)]

\* A.add_from_tracker(B); A.add_from_tracker(C), then on fresh trackers
\* B.add_from_tracker(C); A.add_from_tracker(B), then on fresh trackers
\* A.add_from_tracker(C); A.add_from_tracker(B), then on a fresh A
\* A.add_from_output(output)
Merges(built, output) ==
  [left    |-> add_from_tracker(add_from_tracker(built, "A", "B"), "A", "C"),
   right   |-> add_from_tracker(add_from_tracker(built, "B", "C"), "A", "B"),
   swapped |-> add_from_tracker(add_from_tracker(built, "A", "C"), "A", "B"),
   added   |-> add_from_output(built.A, output),
   built   |-> built]

ApplyTrackers ==
  /\ call.fn = "TagTracker" /\ ~result.returned
  /\ result' = [returned |-> TRUE, value |-> Merges(Built, call.b)]
  /\ UNCHANGED <<schedVars, call>>

SpecTracker == InitTracker /\ [][ApplyTrackers]_vars


\* the severity the classification rule gives a line: the word of a structured
\* tag first, else "error:", else "warning:", case-insensitively
ExpectedSeverity(line) ==
  IF TagSearch(line) # <<>> THEN SeverityOfWord(TagSearch(line)[2])
  ELSE IF Contains(Lower(line), <<"e","r","r","o","r",":">>) THEN SEVERITY_ERROR
  ELSE IF Contains(Lower(line), <<"w","a","r","n","i","n","g",":">>) THEN SEVERITY_WARN
  ELSE SEVERITY_UNKNOWN

CountSeverity(lines, severity) ==
  Cardinality({i \in DOMAIN lines : ExpectedSeverity(lines[i]) = severity})

CountTagged(lines, severity) ==
  Cardinality({i \in DOMAIN lines :
                 TagSearch(lines[i]) # <<>> /\ ExpectedSeverity(lines[i]) = severity})

RECURSIVE DictSum(_, _)
DictSum(d, keys) ==
  IF keys = {} THEN 0
  ELSE LET key == CHOOSE x \in keys : TRUE IN d[key] + DictSum(d, keys \ {key})

\* C14: a line without a structured tag is error severity if it contains
\* "error:" case-insensitively, else warning severity if it contains "warning:",
\* else unknown, always without a tag; a structured tag takes precedence; and
\* an unknown line changes no total and no per-tag count of add_from_output.
C14_UntaggedSeverity ==
  (result.returned /\ call.fn = "TagTracker") =>
    LET la == SplitLines(call.a)
        lb == SplitLines(call.b)
        A == result.value.built.A
        added == result.value.added
    IN  /\ \A severity \in 0..(SEVERITY_COUNT - 1) :
             /\ A.totals[severity + 1] = CountSeverity(la, severity)
             /\ added.totals[severity + 1] =
                  CountSeverity(la, severity) + CountSeverity(lb, severity)
             /\ DictSum(added.tag_totals[severity + 1],
                        DOMAIN added.tag_totals[severity + 1]) =
                  CountTagged(la, severity) + CountTagged(lb, severity)
        /\ (\A i \in DOMAIN lb : ExpectedSeverity(lb[i]) = SEVERITY_UNKNOWN) => added = A

\* a holds "Warning: x error: y" (error) and "error: [C_WARN_D]" (warning by its
\* tag); b holds unknown lines only and leaves the tracker as it was
C14_Witness ==
  /\ result.returned /\ call.fn = "TagTracker"
  /\ call.a = <<"W","a","r","n","i","n","g",":"," ","x"," ","e","r","r","o","r",":"," ","y","\n","e","r","r","o","r",":"," ","[","C","_","W","A","R","N","_","D","]","\n","p","l","a","i","n">>
  /\ call.b = <<"p","l","a","i","n","\n","0"," ","e","r","r","o","r","s","\n">>
  /\ result.value.added.totals = <<0, 1, 1>>
  /\ result.value.added = result.value.built.A

\* C15: (A merge B) merge C, A merge (B merge C) and (A merge C) merge B have
\* equal totals and equal tag-to-count maps, and add_from_tracker leaves its
\* argument unchanged.
C15_MergeCommutesAssociates ==
  (result.returned /\ call.fn = "TagTracker") =>
    LET v == result.value
    IN  /\ v.left.A = v.right.A
        /\ v.left.A = v.swapped.A
        /\ v.left.B = v.built.B /\ v.left.C = v.built.C
        /\ v.swapped.B = v.built.B /\ v.swapped.C = v.built.C
        /\ v.right.C = v.built.C

\* B and C count the tag A_ERROR_B differently and A does not hold it
C15_Witness ==
  /\ result.returned /\ call.fn = "TagTracker"
  /\ call.a = <<"i"," ","[","A","1","_","I","N","F","O","_","9","]","\n","d"," ","[","C","_","W","A","R","N","_","D","]"," ","\n","w"," ","[","C","_","W","A","R","N","_","D","]">>
  /\ result.value.built.B.tag_totals[SEVERITY_ERROR + 1] # result.value.built.C.tag_totals[SEVERITY_ERROR + 1]
  /\ DOMAIN result.value.built.B.tag_totals[SEVERITY_ERROR + 1] # {}
  /\ DOMAIN result.value.built.C.tag_totals[SEVERITY_ERROR + 1] # {}
  /\ result.value.left.A.totals = <<1, 3, 4>>


\* ---------------------------------------------------------------------------
\* diff.compare_images and diff.handle_crc_difference
\*
\* An image is a record [is_image, bands]: bands[b][p] is the value 0..255 of
\* pixel p in channel b.  A payload that PIL cannot open as an image has
\* is_image = FALSE.
\* ---------------------------------------------------------------------------

MaxPixels == 2

\* channels of the sample images
Bands == 2

\* bucket count of one channel of Image.histogram()
BUCKETS == 256

PixelValues == {0, 2, 3, 4, 10}

\* default of the parameter `threshold`
DefaultThreshold == 3

Thresholds == {2, DefaultThreshold}

NotImage == [is_image |-> FALSE, bands |-> <<>>]

ImageOf(bands) == [is_image |-> TRUE, bands |-> bands]

\* golden images: two patterns per size
GoldenImages ==
  {ImageOf([b \in 1..Bands |-> [p \in 1..n |-> v[((b + p) % 2) + 1]]]) :
     n \in 1..MaxPixels, v \in {<<0, 4>>, <<255, 3>>}}

TestImages ==
  UNION {{ImageOf(bands) : bands \in [1..Bands -> [1..n -> PixelValues]]} :
           n \in 1..MaxPixels}

PixelCount(image) == Len(image.bands[1])

MaxOf(set) == CHOOSE x \in set : \A y \in set : y <= x

\* ImageChops.difference(g_image, t_image): the absolute difference per
\* pixel and channel
difference(g_image, t_image) ==
  ImageOf([b \in DOMAIN g_image.bands |->
             [p \in DOMAIN g_image.bands[b] |->
                IF g_image.bands[b][p] >= t_image.bands[b][p]
                  THEN g_image.bands[b][p] - t_image.bands[b][p]
                  ELSE t_image.bands[b][p] - g_image.bands[b][p]]])

\* Image.histogram(): the channels' 256 pixel counts, concatenated; the list
\* index i is position i + 1
histogram(image) ==
  [i \in 1..(BUCKETS * Len(image.bands)) |->
     LET b == ((i - 1) \div BUCKETS) + 1
         bucket == (i - 1) % BUCKETS
     IN  Cardinality({p \in DOMAIN image.bands[b] : image.bands[b][p] = bucket})]

\* histogram_channels(histogram)
histogram_channels(h) ==
  [c \in 1..((Len(h) + BUCKETS - 1) \div BUCKETS) |->
     SubSeq(h, BUCKETS * (c - 1) + 1, Min(BUCKETS * c, Len(h)))]

\* max_histogram_bucket(histogram)
max_histogram_bucket(h) == MaxOf({i \in 0..(Len(h) - 1) : h[i + 1] # 0})

\* mutant: the threshold itself is not tolerated
compare_images_below(golden, test, threshold) ==
  IF ~golden.is_image \/ ~test.is_image THEN [raised |-> "IOError", value |-> FALSE]
  ELSE IF PixelCount(golden) # PixelCount(test)
    THEN [raised |-> "ValueError", value |-> FALSE]
  ELSE
    LET channels == histogram_channels(histogram(difference(golden, test)))
        max_buckets == [c \in DOMAIN channels |-> max_histogram_bucket(channels[c])]
    IN  [raised |-> "",
         value |-> MaxOf({max_buckets[c] : c \in DOMAIN max_buckets}) < threshold]

\* compare_images(golden, test, threshold): Image.open raises IOError on a
\* payload that is not an image, ImageChops.difference raises ValueError on
\* images of different size
compare_images(golden, test, threshold) ==
  IF ~golden.is_image \/ ~test.is_image THEN [raised |-> "IOError", value |-> FALSE]
  ELSE IF PixelCount(golden) # PixelCount(test)
    THEN [raised |-> "ValueError", value |-> FALSE]
  ELSE
    LET channels == histogram_channels(histogram(difference(golden, test)))
        max_buckets == [c \in DOMAIN channels |-> max_histogram_bucket(channels[c])]
    IN  [raised |-> "",
         value |-> MaxOf({max_buckets[c] : c \in DOMAIN max_buckets}) <= threshold]

\* handle_crc_difference on the payloads of the two entries
handle_crc_difference(golden, test) ==
  LET compared == compare_images(golden, test, DefaultThreshold)
  IN  IF compared.raised = "IOError" THEN [raised |-> "", value |-> FALSE]
      ELSE compared

InitImage ==
  /\ tasks = <<>> /\ process_count = 1 /\ outcome = <<>> /\ task = <<>>
  /\ processes = EmptySlots(1) /\ proc = <<>> /\ dirs = {} /\ pc = "idle"
  /\ k = 1 /\ scan = 1 /\ process_avail = 0 /\ events = <<>> /\ ret = NoReturn
  /\ \E golden \in GoldenImages \cup {NotImage}, test \in TestImages \cup {NotImage} :
       /\ (golden.is_image /\ test.is_image) => PixelCount(golden) = PixelCount(test)
       /\ (~golden.is_image /\ test.is_image) => PixelCount(test) = 1
       /\ call = [fn |-> "compare_images", golden |-> golden, test |-> test]
  /\ result = NoResult

ApplyCompareImages ==
  /\ call.fn = "compare_images" /\ ~result.returned
  /\ result' =
       [returned |-> TRUE,
        value |->
          [handled |-> handle_crc_difference(call.golden, call.test),
           by_threshold |->
             [threshold \in Thresholds |->
                compare_images(call.golden, call.test, threshold)]]]
  /\ UNCHANGED <<schedVars, call>>

SpecImage == InitImage /\ [][ApplyCompareImages]_vars

\* the largest absolute difference of a pixel in a channel
MaxAbsDiff(golden, test) ==
  MaxOf({IF golden.bands[b][p] >= test.bands[b][p]
           THEN golden.bands[b][p] - test.bands[b][p]
           ELSE test.bands[b][p] - golden.bands[b][p] :
         b \in 1..Bands, p \in 1..PixelCount(golden)})

\* C19: compare_images returns true iff the largest per-pixel, per-channel
\* absolute difference of the two images is <= the threshold, 3 by default
\* (2 and 3 are equal, 4 and 10 are not), and a payload that cannot be opened
\* as an image is treated as not equal.
C19_WithinThreshold ==
  (result.returned /\ call.fn = "compare_images") =>
    IF call.golden.is_image /\ call.test.is_image
      THEN LET largest == MaxAbsDiff(call.golden, call.test)
           IN  /\ \A threshold \in Thresholds :
                    /\ result.value.by_threshold[threshold].raised = ""
                    /\ result.value.by_threshold[threshold].value = (largest <= threshold)
               /\ result.value.handled = [raised |-> "", value |-> largest <= 3]
               /\ largest \in {2, 3} => result.value.handled.value
               /\ largest \in {4, 10} => ~result.value.handled.value
      ELSE result.value.handled = [raised |-> "", value |-> FALSE]

\* two pixels, one channel differing by 3 at one pixel and the other by less
C19_Witness ==
  /\ result.returned /\ call.fn = "compare_images"
  /\ call.golden.is_image /\ call.test.is_image
  /\ PixelCount(call.golden) = 2
  /\ MaxAbsDiff(call.golden, call.test) = 3
  /\ call.golden.bands[1] # call.test.bands[1]
  /\ call.golden.bands[2] # call.test.bands[2]
  /\ result.value.handled.value
  /\ ~result.value.by_threshold[2].value


\* ---------------------------------------------------------------------------
\* diff.compare_usdz_content
\*
\* An archive is the list zipfile.ZipFile.infolist() returns: one record
\* [filename, file_size, CRC, payload] per entry, in archive order.
\* ---------------------------------------------------------------------------

MaxEntries == 2

ZipInfo(filename, file_size, crc, payload) ==
  [filename |-> filename, file_size |-> file_size, CRC |-> crc, payload |-> payload]

\* the entries archives are made of: a layer file, the same with other
\* content of equal size, with other content of another size, and under
\* another name; a texture, and the texture with one channel off by 2 and by 10
ZipInfos ==
  {ZipInfo("a.usda", 10, 1, NotImage),
   ZipInfo("a.usda", 10, 2, NotImage),
   ZipInfo("a.usda", 11, 3, NotImage),
   ZipInfo("b.usda", 10, 1, NotImage),
   ZipInfo("t.png", 20, 4, ImageOf(<<<<0>>, <<0>>>>)),
   ZipInfo("t.png", 20, 5, ImageOf(<<<<2>>, <<0>>>>)),
   ZipInfo("t.png", 20, 6, ImageOf(<<<<10>>, <<3>>>>))}

Archives == UNION {[1..n -> ZipInfos] : n \in 0..MaxEntries}

RECURSIVE CompareInfos(_, _, _)
\* the loop `for i, test_info in enumerate(test_infos)` from index i on
CompareInfos(golden_infos, test_infos, i) ==
  IF i > Len(test_infos) THEN [raised |-> "", value |-> TRUE]
  ELSE
    LET test_info == test_infos[i]
        golden_info == golden_infos[i]
    IN  IF test_info.filename # golden_info.filename THEN [raised |-> "", value |-> FALSE]
        ELSE IF test_info.file_size # golden_info.file_size
          THEN [raised |-> "", value |-> FALSE]
        ELSE IF test_info.CRC # golden_info.CRC
          THEN handle_crc_difference(golden_info.payload, test_info.payload)
        ELSE CompareInfos(golden_infos, test_infos, i + 1)

\* compare_usdz_content(golden_path, test_path) on the two archives' entries
compare_usdz_content(golden_infos, test_infos) ==
  IF Len(golden_infos) # Len(test_infos) THEN [raised |-> "", value |-> FALSE]
  ELSE CompareInfos(golden_infos, test_infos, 1)

InitUsdz ==
  /\ tasks = <<>> /\ process_count = 1 /\ outcome = <<>> /\ task = <<>>
  /\ processes = EmptySlots(1) /\ proc = <<>> /\ dirs = {} /\ pc = "idle"
  /\ k = 1 /\ scan = 1 /\ process_avail = 0 /\ events = <<>> /\ ret = NoReturn
  /\ call \in [fn : {"compare_usdz_content"}, golden : Archives, test : Archives]
  /\ result = NoResult

ApplyCompareUsdz ==
  /\ call.fn = "compare_usdz_content" /\ ~result.returned
  /\ result' = [returned |-> TRUE,
                value |-> compare_usdz_content(call.golden, call.test)]
  /\ UNCHANGED <<schedVars, call>>

SpecUsdz == InitUsdz /\ [][ApplyCompareUsdz]_vars

\* an image pair within the pixel tolerance
TolerableImages(golden, test) ==
  /\ golden.is_image /\ test.is_image
  /\ PixelCount(golden) = PixelCount(test)
  /\ MaxAbsDiff(golden, test) <= DefaultThreshold

\* C18: compare_usdz_content returns true iff (a) the archives have the same
\* number of entries, (b) names and (c) declared sizes are equal position by
\* position and (d) every entry whose checksum differs is an image pair
\* within the tolerance, whatever the other entries and their order.
C18_TrueIffAllEntriesPass ==
  (result.returned /\ call.fn = "compare_usdz_content") =>
    /\ result.value.raised = ""
    /\ result.value.value =
         (/\ Len(call.golden) = Len(call.test)
          /\ \A i \in 1..Len(call.test) :
               /\ call.test[i].filename = call.golden[i].filename
               /\ call.test[i].file_size = call.golden[i].file_size
               /\ call.test[i].CRC # call.golden[i].CRC =>
                    TolerableImages(call.golden[i].payload, call.test[i].payload))


\* ---------------------------------------------------------------------------
\* diff.get_diffs
\*
\* The golden directory gold_base and the test directory test_base, both
\* below the relative directory "d" of their roots.  A tree maps each name to
\* what the directory holds under it: nothing ("absent"), a directory
\* ("dir"), a symbolic link whose target does not exist ("link"), or a
\* regular file ("file") with its size, its bytes, its modification time,
\* whether the user may read it, and, for an archive, its entries.
\* ---------------------------------------------------------------------------

\* the file names of the two directories, in the order os.walk lists them
Names == <<<<"a",".","u","s","d","a">>, <<"m",".","u","s","d","z">>>>

\* relative path of gold_base below gold_root
RelDir == <<"d">>

Absent == [kind |-> "absent", size |-> 0, bytes |-> 0, mtime |-> 0,
           readable |-> FALSE, infos |-> <<>>]

Directory == [Absent EXCEPT !.kind = "dir"]

DanglingLink == [Absent EXCEPT !.kind = "link"]

File(size, bytes, mtime, readable, infos) ==
  [kind |-> "file", size |-> size, bytes |-> bytes, mtime |-> mtime,
   readable |-> readable, infos |-> infos]

\* contents of a text file: [size, bytes]; bytes 1 and 2 have equal size
TextContents == {<<10, 1>>, <<10, 2>>, <<11, 3>>}

\* contents of an archive: [size, bytes, entries]; the textures of bytes 4
\* and 5 are within the pixel tolerance, those of bytes 6 are not, and the
\* archive of bytes 7 has another size
ArchiveContents ==
  {<<100, 4, <<ZipInfo("t.png", 20, 4, ImageOf(<<<<0>>, <<0>>>>))>> >>,
   <<100, 5, <<ZipInfo("t.png", 20, 5, ImageOf(<<<<2>>, <<0>>>>))>> >>,
   <<100, 6, <<ZipInfo("t.png", 20, 6, ImageOf(<<<<10>>, <<3>>>>))>> >>,
   <<101, 7, <<ZipInfo("t.png", 21, 7, ImageOf(<<<<0>>, <<0>>>>))>> >>}

\* os.path.splitext(name)[1]: from the last dot on, unless that dot leads
\* the name
splitext_ext(name) ==
  LET dots == {i \in 2..Len(name) : name[i] = "." /\ \E j \in 1..(i - 1) : name[j] # "."}
  IN  IF dots = {} THEN <<>>
      ELSE SubSeq(name, MaxOf(dots), Len(name))

\* what a golden directory can hold under a name: golden files are readable
\* and were written at time 1
GoldenEntries(name) ==
  {Absent, Directory, DanglingLink}
    \cup (IF splitext_ext(name) = <<".","u","s","d","z">>
            THEN {File(c[1], c[2], 1, TRUE, c[3]) : c \in ArchiveContents}
            ELSE {File(c[1], c[2], 1, TRUE, <<>>) : c \in TextContents})

\* what a test directory can hold under a name
TestEntries(name) ==
  {Absent, Directory, DanglingLink}
    \cup (IF splitext_ext(name) = <<".","u","s","d","z">>
            THEN {File(c[1], c[2], mtime, readable, c[3]) :
                    c \in ArchiveContents, mtime \in 1..2, readable \in BOOLEAN}
            ELSE {File(c[1], c[2], mtime, readable, <<>>) :
                    c \in TextContents, mtime \in 1..2, readable \in BOOLEAN})

\* os.walk: the names of a directory that are not directories
file_list(tree) == SelectSeq(Names, LAMBDA name : tree[name].kind \in {"file", "link"})

\* filecmp.cmp under filecmp._cmp: "match" for True, "mismatch" for False and
\* "error" for OSError; f1 is the golden entry and f2 the test entry
cmp(f1, f2, shallow) ==
  IF f1.kind \in {"absent", "link"} \/ f2.kind \in {"absent", "link"} THEN "error"
  ELSE IF f1.kind # "file" \/ f2.kind # "file" THEN "mismatch"
  ELSE IF shallow /\ f1.size = f2.size /\ f1.mtime = f2.mtime THEN "match"
  ELSE IF f1.size # f2.size THEN "mismatch"
  ELSE IF ~f1.readable \/ ~f2.readable THEN "error"
  ELSE IF f1.bytes = f2.bytes THEN "match"
  ELSE "mismatch"

\* filecmp.cmpfiles(a, b, common, shallow): (matches, mismatches, errors)
cmpfiles(a, b, common, shallow) ==
  [res \in {"match", "mismatch", "error"} |->
     SelectSeq(common, LAMBDA name : cmp(a[name], b[name], shallow) = res)]

\* compare_usdz_content on two paths: zipfile.ZipFile raises OSError on a
\* directory and on a file the user may not read
compare_usdz_paths(gold, test) ==
  IF gold.kind # "file" \/ test.kind # "file" \/ ~gold.readable \/ ~test.readable
    THEN [raised |-> "OSError", value |-> FALSE]
    ELSE compare_usdz_content(gold.infos, test.infos)

\* get_diffs(gold_base, test_base, gold_root)
get_diffs(gold, test) ==
  LET first == cmpfiles(gold, test, file_list(gold), FALSE)
      usdz == SelectSeq(first["mismatch"],
                        LAMBDA name : splitext_ext(name) = <<".","u","s","d","z">>)
      tolerated(name) == compare_usdz_paths(gold[name], test[name])
      second == cmpfiles(gold, test, file_list(test), TRUE)
      rel(names) == [i \in DOMAIN names |-> join_path(RelDir, <<names[i]>>)]
  IN  IF \E i \in DOMAIN usdz : tolerated(usdz[i]).raised # ""
        THEN [raised |-> "OSError", all_matches |-> <<>>, all_mismatches |-> <<>>,
              all_missings |-> <<>>, all_extras |-> <<>>]
        ELSE [raised |-> "",
              all_matches |-> rel(first["match"]),
              all_mismatches |->
                rel(SelectSeq(first["mismatch"],
                              LAMBDA name : \/ splitext_ext(name) # <<".","u","s","d","z">>
                                            \/ ~tolerated(name).value)),
              all_missings |-> rel(first["error"]),
              all_extras |-> rel(second["error"])]


GoldenTrees == {tree \in [Range(Names) -> UNION {GoldenEntries(name) : name \in Range(Names)}] :
                  \A name \in Range(Names) : tree[name] \in GoldenEntries(name)}

TestTrees == {tree \in [Range(Names) -> UNION {TestEntries(name) : name \in Range(Names)}] :
                \A name \in Range(Names) : tree[name] \in TestEntries(name)}

InitDiff ==
  /\ tasks = <<>> /\ process_count = 1 /\ outcome = <<>> /\ task = <<>>
  /\ processes = EmptySlots(1) /\ proc = <<>> /\ dirs = {} /\ pc = "idle"
  /\ k = 1 /\ scan = 1 /\ process_avail = 0 /\ events = <<>> /\ ret = NoReturn
  /\ call \in [fn : {"get_diffs"}, gold : GoldenTrees, test : TestTrees]
  /\ result = NoResult

ApplyGetDiffs ==
  /\ call.fn = "get_diffs" /\ ~result.returned
  /\ result' = [returned |-> TRUE, value |-> get_diffs(call.gold, call.test)]
  /\ UNCHANGED <<schedVars, call>>

SpecDiff == InitDiff /\ [][ApplyGetDiffs]_vars

\* the relative path get_diffs reports for a name
RelPath(name) == join_path(RelDir, <<name>>)

DuplicateFree(list) == \A i, j \in DOMAIN list : list[i] = list[j] => i = j

\* C16: the four lists get_diffs returns are pairwise disjoint and
\* duplicate-free; missing holds only paths that exist under golden and
\* extra only paths that exist under test.
C16_ListsDisjoint ==
  (result.returned /\ call.fn = "get_diffs" /\ result.value.raised = "") =>
    LET v == result.value
        lists == <<v.all_matches, v.all_mismatches, v.all_missings, v.all_extras>>
    IN  /\ \A i \in 1..4 : DuplicateFree(lists[i])
        /\ \A i, j \in 1..4 : i # j => Range(lists[i]) \cap Range(lists[j]) = {}
        /\ \A name \in Range(Names) :
             /\ RelPath(name) \in Range(v.all_missings) =>
                  call.gold[name].kind \in {"file", "link"}
             /\ RelPath(name) \in Range(v.all_extras) =>
                  call.test[name].kind \in {"file", "link"}

\* C17: every file under the golden tree is in exactly one of matches,
\* mismatches and missing, every file under the test tree without a golden
\* counterpart is in extra, and an archive whose byte-level mismatch the
\* archive-aware comparison tolerates is in matches.
C17_EveryFileClassified ==
  (result.returned /\ call.fn = "get_diffs" /\ result.value.raised = "") =>
    LET v == result.value
        In(name, list) == RelPath(name) \in Range(list)
    IN  \A name \in Range(Names) :
          /\ call.gold[name].kind = "file" =>
               Cardinality({i \in 1..3 :
                              In(name, <<v.all_matches, v.all_mismatches,
                                         v.all_missings>>[i])}) = 1
          /\ (call.test[name].kind = "file" /\ call.gold[name].kind = "absent") =>
               In(name, v.all_extras)
          /\ ( /\ splitext_ext(name) = <<".","u","s","d","z">>
               /\ cmp(call.gold[name], call.test[name], FALSE) = "mismatch"
               /\ compare_usdz_paths(call.gold[name], call.test[name]).value )
             => In(name, v.all_matches)


(***************************************************************************)
(* The synthesized exit-code line                                          *)
(***************************************************************************)
\* position of character c in the sequence digits, 0-based
DigitValue(digits, c) == (CHOOSE i \in DOMAIN digits : digits[i] = c) - 1

RECURSIVE ParseBase(_, _, _, _)
\* the number the digit text s states in base d, added to acc * d^Len(s)
ParseBase(s, d, digits, acc) ==
  IF s = <<>> THEN acc
  ELSE ParseBase(Tail(s), d, digits,
                 Int2(acc.hi * d + ((acc.lo * d + DigitValue(digits, Head(s))) \div Limb),
                      (acc.lo * d + DigitValue(digits, Head(s))) % Limb))

\* the integer a decimal text states
ParseDecimal(s) ==
  IF s # <<>> /\ Head(s) = "-"
    THEN Negate(ParseBase(Tail(s), 10, DecDigits, Int2(0, 0)))
    ELSE ParseBase(s, 10, DecDigits, Int2(0, 0))

\* the text from position i up to the first space
UpToSpace(s, i) ==
  SubSeq(s, i, (CHOOSE j \in i..(Len(s) + 1) :
                  /\ j = Len(s) + 1 \/ s[j] = " "
                  /\ \A h \in i..(j - 1) : s[h] # " ") - 1)

ExitCodePrefix == <<"\n","E","R","R","O","R",":"," ","E","x","i","t"," ","c","o","d","e"," ">>

AccessViolationText == <<" ","[","A","c","c","e","s","s"," ","V","i","o","l","a","t","i","o","n","]">>

\* `suffix` is the exit-code line of `code`: decimal, 8 uppercase hex digits
\* of code mod 2^32, and the annotation iff that is 0xC0000005
IsExitCodeLine(suffix, code, decimal) ==
  LET at == Len(ExitCodePrefix) + Len(decimal)
  IN  /\ StartsWith(suffix, ExitCodePrefix)
      /\ decimal # <<>> /\ decimal # <<"-">>
      /\ \A i \in DOMAIN decimal : decimal[i] \in Range(DecDigits) \/ (i = 1 /\ decimal[i] = "-")
      /\ ParseDecimal(decimal) = code
      /\ Len(suffix) >= at + 14
      /\ SubSeq(suffix, at + 1, at + 4) = <<" ","(","0","x">>
      /\ \A i \in (at + 5)..(at + 12) : suffix[i] \in Range(HexDigits)
      /\ ParseBase(SubSeq(suffix, at + 5, at + 12), 16, HexDigits, Int2(0, 0))
           = Int2(code.hi % Limb, code.lo)
      /\ SubSeq(suffix, at + 13, at + 14) = <<")",".">>
      /\ SubSeq(suffix, at + 15, Len(suffix)) =
           (IF code.hi % Limb = 49152 /\ code.lo = 5 THEN AccessViolationText ELSE <<>>)

\* C24: the synthesized line states the exit code in decimal and as exactly 8
\* uppercase hex digits equal to the code mod 2^32, with ' [Access Violation]'
\* iff that is 0xC0000005, and is added only when the job failed and its
\* output holds no error text.
C24_ExitCodeLine ==
  (result.returned /\ call.fn = "wait_and_update_task") =>
    LET captured == get_process_output(call.stdout, call.stderr)
        output == result.value.output
        suffix == SubSeq(output, Len(captured) + 1, Len(output))
    IN  /\ SubSeq(output, 1, Len(captured)) = captured
        /\ IF call.code # Int2(0, 0) /\ ~Contains(Lower(captured), <<"e","r","r","o","r">>)
             THEN IsExitCodeLine(suffix, call.code,
                                 UpToSpace(suffix, Len(ExitCodePrefix) + 1))
             ELSE suffix = <<>>

\* the negative code -1073741819 is stated as C0000005 with the annotation
C24_Witness ==
  /\ result.returned /\ call.fn = "wait_and_update_task"
  /\ call.code = Int2(-16384, 5) /\ call.stdout = <<"o","k","\n">> /\ call.stderr = <<>>
  /\ result.value.output =
       <<"o","k","\n","E","R","R","O","R",":"," ","E","x","i","t"," ","c","o","d","e"," ","-","1","0","7","3","7","4","1","8","1","9"," ","(","0","x","C","0","0","0","0","0","0","5",")","."," ","[","A","c","c","e","s","s"," ","V","i","o","l","a","t","i","o","n","]">>


(***************************************************************************)
(* TagTracker objects under sequences of add_from_output and               *)
(* add_from_tracker calls.  result.value holds the trackers, the number of *)
(* calls made, and for each tracker and severity the number of untagged    *)
(* lines counted into it.                                                  *)
(***************************************************************************)
MaxCalls == 3

TrackerNames == {"A", "B"}

InitTrackerCalls ==
  /\ tasks = <<>> /\ process_count = 1 /\ outcome = <<>> /\ task = <<>>
  /\ processes = EmptySlots(1) /\ proc = <<>> /\ dirs = {} /\ pc = "idle"
  /\ k = 1 /\ scan = 1 /\ process_avail = 0 /\ events = <<>> /\ ret = NoReturn
  /\ call = [fn |-> "TagTrackerCalls"]
  /\ result = [returned |-> FALSE,
               value |-> [heap |-> [name \in TrackerNames |-> NewTracker],
                          untagged |-> [name \in TrackerNames |->
                                          [severity \in 1..SEVERITY_COUNT |-> 0]],
                          calls |-> 0]]

\* the untagged lines of each severity in `lines`
UntaggedIn(lines) ==
  [severity \in 1..SEVERITY_COUNT |->
     CountSeverity(lines, severity - 1) - CountTagged(lines, severity - 1)]

\* self.add_from_output(output)
CallAddFromOutput(self, output) ==
  /\ call.fn = "TagTrackerCalls" /\ result.value.calls < MaxCalls
  /\ result' =
       [result EXCEPT
          !.value.heap[self] = add_from_output(@, output),
          !.value.untagged[self] =
             [severity \in 1..SEVERITY_COUNT |->
                @[severity] + UntaggedIn(SplitLines(output))[severity]],
          !.value.calls = @ + 1]
  /\ UNCHANGED <<schedVars, call>>

\* self.add_from_tracker(tracker); the two may be the same object
CallAddFromTracker(self, tracker) ==
  /\ call.fn = "TagTrackerCalls" /\ result.value.calls < MaxCalls
  /\ result' =
       [result EXCEPT
          !.value.heap = add_from_tracker(@, self, tracker),
          !.value.untagged[self] =
             [severity \in 1..SEVERITY_COUNT |->
                @[severity] + result.value.untagged[tracker][severity]],
          !.value.calls = @ + 1]
  /\ UNCHANGED <<schedVars, call>>

NextTrackerCalls ==
  \/ \E self \in TrackerNames, output \in Outputs : CallAddFromOutput(self, output)
  \/ \E self \in TrackerNames, tracker \in TrackerNames : CallAddFromTracker(self, tracker)

SpecTrackerCalls == InitTrackerCalls /\ [][NextTrackerCalls]_vars

\* C28: after any sequence of add_from_output and add_from_tracker calls on
\* trackers that started empty, for each severity all counts are non-negative,
\* totals[s] >= the sum of tag_totals[s] with equality iff no untagged line of
\* that severity was counted, and no tag code is empty or absent.
C28_TotalsCoverTags ==
  call.fn = "TagTrackerCalls" =>
    \A name \in TrackerNames, severity \in 1..SEVERITY_COUNT :
      LET tracker == result.value.heap[name]
          tags == tracker.tag_totals[severity]
          sum == DictSum(tags, DOMAIN tags)
      IN  /\ tracker.totals[severity] >= 0
          /\ \A tag \in DOMAIN tags : tags[tag] >= 0 /\ tag # <<>> /\ tag # None
          /\ tracker.totals[severity] >= sum
          /\ (tracker.totals[severity] = sum) <=>
               (result.value.untagged[name][severity] = 0)

\* A holds tagged and untagged error lines, was merged into B and into itself
C28_Witness ==
  /\ call.fn = "TagTrackerCalls" /\ result.value.calls = 3
  /\ result.value.heap["A"].totals[SEVERITY_ERROR + 1] = 6
  /\ result.value.untagged["A"][SEVERITY_ERROR + 1] = 2
  /\ result.value.heap["B"].totals[SEVERITY_ERROR + 1] = 3
  /\ result.value.heap["B"].totals[SEVERITY_WARN + 1] = 0


(***************************************************************************)
(* process.run_conversion: run_tasks, then the tag trackers of the logs    *)
(***************************************************************************)
MaxConversionTasks == 2

\* sections of the converted lists: none, and one whose name holds "error:"
ConversionSections == {None, <<"e","r","r","o","r",":"," ","x">>}

ConversionTaskSeqs ==
  LET Shapes == UNION {[1..n -> (0..(csv_count - 1)) \X ConversionSections] :
                         n \in 0..MaxConversionTasks}
      Ordered == {s \in Shapes : \A i \in 1..(Len(s) - 1) : s[i][1] <= s[i + 1][1]}
  IN  {[i \in DOMAIN s |-> TaskOf(i, s[i][1], s[i][2])] : s \in Ordered}

InitConversion ==
  /\ tasks \in ConversionTaskSeqs
  /\ process_count \in 1..MaxProcs
  /\ outcome = [t \in 1..Len(tasks) |-> NoOutcome]
  /\ task = [t \in 1..Len(tasks) |-> NewTaskState]
  /\ processes = EmptySlots(process_count)
  /\ proc = [t \in 1..Len(tasks) |-> "none"]
  /\ dirs = {} /\ pc = "mkdirs" /\ k = 1 /\ scan = 1 /\ process_avail = 0
  /\ events = <<>> /\ ret = NoReturn
  /\ call = [fn |-> "run_conversion"]
  /\ result = NoResult

RECURSIVE GatherTags(_, _, _)
\* lines 65-68 from list csv_index on: heap[0] is the caller's tag_tracker,
\* heap[c] the tracker of list c's log
GatherTags(heap, logs, csv_index) ==
  IF csv_index > Len(logs) THEN heap
  ELSE GatherTags(add_from_tracker([heap EXCEPT ![csv_index] = from_output(logs[csv_index])],
                                   0, csv_index),
                  logs, csv_index + 1)

\* run_conversion after run_tasks has returned (lines 63-68)
GatherMessageTags ==
  /\ pc = "done" /\ call.fn = "run_conversion" /\ ~result.returned
  /\ result' = [returned |-> TRUE,
                value |-> GatherTags([c \in 0..csv_count |-> NewTracker], ret.logs, 1)]
  /\ pc' = "exit"
  /\ UNCHANGED <<tasks, process_count, outcome, task, processes, proc, dirs, k,
                 scan, process_avail, events, ret, call>>

NextConversion == GatherMessageTags \/ Next

SpecConversion == InitConversion /\ [][NextConversion]_vars

\* the lines of severity `severity` in the captured output of the jobs `jobs`
OutputLines(jobs, severity) ==
  {p \in UNION {{t} \X DOMAIN SplitLines(task[t].output) : t \in jobs} :
     ExpectedSeverity(SplitLines(task[p[1]].output)[p[2]]) = severity}

\* C21: for each list and severity the list's total is the number of lines of
\* that severity in its jobs' captured output (with the exit-code line), the
\* global tracker is the merge of the lists' trackers, and command lines and
\* section headers contribute nothing.
C21_TotalsCountOutputLines ==
  (result.returned /\ call.fn = "run_conversion") =>
    \A severity \in 0..(SEVERITY_COUNT - 1) :
      /\ \A c \in 1..csv_count :
           result.value[c].totals[severity + 1] =
             Cardinality(OutputLines({t \in 1..N : tasks[t].csv_index = c - 1}, severity))
      /\ result.value[0].totals[severity + 1] =
           Cardinality(OutputLines(1..N, severity))


(***************************************************************************)
(* wait_for_available_process                                              *)
(***************************************************************************)
\* the slot is empty or its process has exited
SlotFree(slot) == processes[slot] = 0 \/ proc[processes[slot]] = "exited"

\* C22: a call of wait_for_available_process returns the lowest-index slot
\* that is empty or whose process had exited when it was scanned, finalizes at
\* most that slot's job, empties only that slot and leaves every other slot
\* unchanged; while no slot qualifies it changes nothing and rescans.
C22_FirstFreeSlotOnly ==
  [][pc = "wait" =>
       /\ \A slot \in 1..Min(scan - 1, Len(processes)) : processes[slot] # 0
       /\ pc' = "spawn" =>
            /\ SlotFree(scan) /\ process_avail' = scan
            /\ processes' = [processes EXCEPT ![scan] = 0]
            /\ \A t \in 1..N : t # processes[scan] => task'[t] = task[t]
            /\ events' = IF processes[scan] = 0 THEN events
                         ELSE Append(events, Event("final", processes[scan]))
       /\ pc' = "wait" =>
            /\ processes' = processes /\ task' = task /\ events' = events
            /\ scan' # scan =>
                 IF scan <= Len(processes) THEN ~SlotFree(scan) /\ scan' = scan + 1
                 ELSE scan' = 1
    ]_vars

\* slot 2 is returned while the process of slot 1, busy when it was scanned,
\* has exited in the meantime and stays in its slot
C22_Witness ==
  /\ pc = "spawn" /\ process_avail = 2
  /\ processes[1] # 0 /\ proc[processes[1]] = "exited"
  /\ task[processes[1]].command = None


(***************************************************************************)
(* The argument lists of run_tasks as list objects.  result.value.heap     *)
(* holds the lists: exe_args, the section's argument list that parse_tasks *)
(* shares between the jobs without arguments of their own, one list for    *)
(* each job with own arguments, and the lists run_tasks allocates.         *)
(***************************************************************************)
MaxArgJobs == 3

ExeArgsId == 1
SectionArgsId == 2

NoUsage == <<"-","-","n","o","u","s","a","g","e">>

\* row[3] of a job row after shlex.split; <<>> stands for a row of 3 columns
OwnArgs == {<<>>, << <<"-","n">> >>, << <<"a"," ","b">>, <<"-","n">> >>}

\* task.parse_tasks lines 101-104: task_args is the section's list itself, or
\* a new list task_args + shlex.split(row[3])
ParsedArgsId(own, i) == IF own[i] # <<>> THEN SectionArgsId + i ELSE SectionArgsId

ParsedHeap(exe_args_list, section_args, own) ==
  <<exe_args_list, section_args>>
    \o [i \in 1..Len(own) |-> IF own[i] # <<>> THEN section_args \o own[i] ELSE <<>>]

InitArgs ==
  /\ tasks = <<>> /\ process_count = 1 /\ outcome = <<>> /\ task = <<>>
  /\ processes = EmptySlots(1) /\ proc = <<>> /\ dirs = {} /\ pc = "idle"
  /\ k = 1 /\ scan = 1 /\ process_avail = 0 /\ events = <<>> /\ ret = NoReturn
  /\ \E exe_args_list \in {<<>>, exe_args},
        section_args \in {<<>>, << <<"-","s">> >>},
        n \in 1..MaxArgJobs :
       \E own \in [1..n -> OwnArgs] :
         /\ call = [fn |-> "spawn_args", exe_args |-> exe_args_list,
                    section_args |-> section_args, own |-> own,
                    tasks |-> [i \in 1..n |->
                                 [TaskOf(i, 0, None) EXCEPT !.args = ParsedArgsId(own, i)]]]
         /\ result = [returned |-> FALSE,
                      value |-> [heap |-> ParsedHeap(exe_args_list, section_args, own),
                                 spawned |-> <<>>]]

\* mutant: += extends the right-hand list
IAddOther(heap, self, other) == [heap EXCEPT ![other] = @ \o heap[self]]

\* self += other: list.__iadd__ extends the list object `self` in place
IAdd(heap, self, other) == [heap EXCEPT ![self] = @ \o heap[other]]

\* lines 216-219 on the list cmd_args
ExtendCmdArgs(heap, cmd_args, args) ==
  IF heap[args] # <<>> THEN IAdd(heap, cmd_args, args) ELSE heap

\* line 221: args = cmd_args + ['--nousage'] is a new list
WithNoUsage(heap, cmd_args) == Append(heap, heap[cmd_args] \o <<NoUsage>>)

\* lines 213-224 for job t: the heap afterwards; cmd_args is the list before
\* the last one, args the last
SpawnHeap(heap, t) ==
  WithNoUsage(
    ExtendCmdArgs(
      ExtendCmdArgs(
        Append(heap, <<exe, join_path(in_path, <<t.src>>),
                       join_path(out_path, <<t.dst, t.name \o ext>>)>>),
        Len(heap) + 1, ExeArgsId),
      Len(heap) + 1, t.args),
    Len(heap) + 1)

SpawnArgs ==
  /\ call.fn = "spawn_args"
  /\ Len(result.value.spawned) < Len(call.tasks)
  /\ result' =
       [result EXCEPT
          !.value.heap = SpawnHeap(@, call.tasks[Len(result.value.spawned) + 1]),
          !.value.spawned = Append(@, [cmd_args |-> Len(result.value.heap) + 1,
                                       args |-> Len(result.value.heap) + 2])]
  /\ UNCHANGED <<schedVars, call>>

NextArgs == SpawnArgs

SpecArgs == InitArgs /\ [][NextArgs]_vars

\* C23: every process is spawned with [exe, in_path/src, out_path/dst/name+ext]
\* followed by the fixed extra arguments, the job's own arguments and
\* '--nousage' last; building one job's list leaves the fixed-argument list,
\* the jobs' argument lists and the lists of the jobs spawned before unchanged.
C23_SpawnArguments ==
  call.fn = "spawn_args" =>
    LET heap == result.value.heap
        parsed == ParsedHeap(call.exe_args, call.section_args, call.own)
    IN  /\ \A id \in 1..Len(parsed) : heap[id] = parsed[id]
        /\ \A i \in 1..Len(result.value.spawned) :
             LET t == call.tasks[i]
             IN  heap[result.value.spawned[i].args] =
                   <<exe, join_path(in_path, <<t.src>>),
                     join_path(out_path, <<t.dst, t.name \o ext>>)>>
                   \o call.exe_args \o call.section_args \o call.own[i] \o <<NoUsage>>

\* two jobs that share the section's non-empty argument list have been spawned
\* with non-empty fixed arguments
C23_Witness ==
  /\ call.fn = "spawn_args" /\ Len(result.value.spawned) >= 2
  /\ call.exe_args # <<>> /\ call.section_args # <<>>
  /\ call.tasks[1].args = SectionArgsId /\ call.tasks[2].args = SectionArgsId


(***************************************************************************)
(* The recorded command against the spawned arguments                      *)
(***************************************************************************)
\* C26: the command recorded on a finalized job lists exactly the arguments
\* its process was spawned with, in the same order.
C26_CommandListsSpawnArguments ==
  \A i \in 1..Len(events) :
    events[i].type = "final" =>
      task[events[i].task].command = get_process_command(PopenArgs(events[i].task))


(***************************************************************************)
(* The texts of one list against the texts of that list run alone          *)
(***************************************************************************)
\* the jobs of list c in the order the final loop visits them
ListOrder(c) == SelectSeq(AssembleOrder, LAMBDA t : tasks[t].csv_index + 1 = c)

\* lines 229-246 applied to the jobs of list c only
AssembleAlone(c) ==
  AssembleLoop(ListOrder(c), None,
               [complete_tasks |-> <<>>, failed_tasks |-> <<>>,
                logs |-> [d \in 1..csv_count |-> <<>>],
                results |-> [d \in 1..csv_count |-> <<>>]])

\* C27: the log and result text of a list depend only on that list's own jobs:
\* a section header is written for a job exactly when its section differs from
\* that of the previous job of the same list.
C27_ListTextsIndependent ==
  pc = "done" =>
    \A c \in 1..csv_count :
      /\ ret.logs[c] = AssembleAlone(c).logs[c]
      /\ ret.results[c] = AssembleAlone(c).results[c]


(***************************************************************************)
(* run_tasks with converter processes that may fill a pipe, under the      *)
(* fairness of SpecLive: the control thread keeps running, and a process   *)
(* exits when it is able to                                                *)
(***************************************************************************)
SpecPipesLive ==
  /\ Init
  /\ [][Next \/ \E t \in 1..N : ProcBlock(t)]_vars
  /\ WF_vars(ControlStep)
  /\ ([]<>(~CanPollAvailable)) \/ ([]<><<PollAvailable>>_vars)
  /\ ([]<>(~CanDrainCommunicate)) \/ ([]<><<DrainCommunicate>>_vars)
  /\ ([]<>(~CanAssemble)) \/ ([]<><<Assemble>>_vars)
  /\ \A t \in 1..MaxTasks : WF_vars(ProcessExits(t))

\* C25: the scheduler does not wait forever for a free slot, also when the
\* processes in the slots block on a full pipe.
C25_WaitForSlotEnds == (pc = "wait") ~> (pc # "wait")


(***************************************************************************)
(* diff_with_golden applied to bounded job lists and directory trees       *)
(***************************************************************************)
MaxGoldenJobs == 2

\* the destination directories of the jobs
Dsts == {<<"d">>, <<"e">>}

ReadableText(bytes) == File(10, bytes, 1, TRUE, <<>>)

\* golden and test directories of readable files
PlainGoldenTrees ==
  {tree \in GoldenTrees :
     /\ tree[Names[1]] \in {Absent, ReadableText(1)}
     /\ tree[Names[2]] \in {Absent, File(100, 4, 1, TRUE, <<>>)}}

PlainTestTrees ==
  {tree \in [Range(Names) -> {Absent, ReadableText(1), ReadableText(2)}] :
     tree[Names[2]] = Absent}

\* the *_result.txt file below the golden and the test directory
ResultFiles == {Absent, ReadableText(1), ReadableText(2)}

InitGolden ==
  /\ tasks = <<>> /\ process_count = 1 /\ outcome = <<>> /\ task = <<>>
  /\ processes = EmptySlots(1) /\ proc = <<>> /\ dirs = {} /\ pc = "idle"
  /\ k = 1 /\ scan = 1 /\ process_avail = 0 /\ events = <<>> /\ ret = NoReturn
  /\ \E n \in 1..MaxGoldenJobs :
       call \in [fn : {"diff_with_golden"},
                 golden : [Dsts -> PlainGoldenTrees],
                 test : [Dsts -> PlainTestTrees],
                 dsts : [1..n -> Dsts],
                 result_gold : ResultFiles \ {ReadableText(2)},
                 result_test : ResultFiles]
  /\ result = NoResult

\* the paths of a get_diffs list for the directory dst
TaskPaths(dst, list) ==
  [i \in DOMAIN list |->
     join_path(dst, <<SubSeq(list[i], Len(RelDir) + 2, Len(list[i]))>>)]

RECURSIVE DiffTasks(_, _, _, _, _)
\* lines 244-253: the loop over the jobs
DiffTasks(golden, test, dsts, i, acc) ==
  IF i > Len(dsts) THEN acc
  ELSE DiffTasks(golden, test, dsts, i + 1,
         [match_total |-> acc.match_total
                            + Len(get_diffs(golden[dsts[i]], test[dsts[i]]).all_matches),
          mismatches |-> acc.mismatches
                           \o TaskPaths(dsts[i], get_diffs(golden[dsts[i]], test[dsts[i]]).all_mismatches),
          missings |-> acc.missings
                         \o TaskPaths(dsts[i], get_diffs(golden[dsts[i]], test[dsts[i]]).all_missings),
          extras |-> acc.extras
                       \o TaskPaths(dsts[i], get_diffs(golden[dsts[i]], test[dsts[i]]).all_extras)])

ResultRelPath == <<"r",".","t","x","t">>

\* lines 255-265: the *_result.txt file
DiffResultFile(result_gold, result_test, acc) ==
  IF result_test.kind = "absent"
    THEN [acc EXCEPT !.missings = Append(@, ResultRelPath)]
  ELSE IF result_gold.kind = "absent"
    THEN [acc EXCEPT !.extras = Append(@, ResultRelPath)]
  ELSE IF cmp(result_gold, result_test, FALSE) = "match"
    THEN [acc EXCEPT !.match_total = @ + 1]
  ELSE [acc EXCEPT !.mismatches = Append(@, ResultRelPath)]

\* diff_with_golden(...): (match_total, len(mismatches), len(missings),
\* len(extras))
diff_with_golden(golden, test, dsts, result_gold, result_test) ==
  DiffResultFile(result_gold, result_test,
                 DiffTasks(golden, test, dsts, 1,
                           [match_total |-> 0, mismatches |-> <<>>,
                            missings |-> <<>>, extras |-> <<>>]))

ApplyDiffWithGolden ==
  /\ call.fn = "diff_with_golden" /\ ~result.returned
  /\ result' = [returned |-> TRUE,
                value |-> diff_with_golden(call.golden, call.test, call.dsts,
                                           call.result_gold, call.result_test)]
  /\ UNCHANGED <<schedVars, call>>

SpecGolden == InitGolden /\ [][ApplyDiffWithGolden]_vars

\* the distinct files under the jobs' golden and test directories
FilesUnderJobs ==
  {<<dst, name>> \in Range(call.dsts) \X Range(Names) :
     call.golden[dst][name].kind = "file" \/ call.test[dst][name].kind = "file"}

\* C29: the match, mismatch, missing and extra counts of diff_with_golden sum
\* to the number of distinct files under the jobs' golden and test
\* directories plus one for the result-text file, also when two jobs have the
\* same destination directory.
C29_EachFileCountedOnce ==
  (call.fn = "diff_with_golden" /\ result.returned) =>
    result.value.match_total + Len(result.value.mismatches)
      + Len(result.value.missings) + Len(result.value.extras)
    = Cardinality(FilesUnderJobs) + 1


(***************************************************************************)
(* ufgvalidate.py: run_tasks.  result.value holds the groups with the      *)
(* running csv_index and section, the position of the loops, cmd_args, the *)
(* logs, and the validator invocations made so far with the list index     *)
(* their output was logged under.                                          *)
(***************************************************************************)
MAX_FILES_PER_COMMAND == 32

MaxRuns == 2

\* lengths of the runs of consecutive jobs of one list and section
RunLengths == {1, MAX_FILES_PER_COMMAND - 1, MAX_FILES_PER_COMMAND}

ValidateSrc(i) ==
  <<"s", DecDigits[(i \div 100) + 1], DecDigits[((i \div 10) % 10) + 1], DecDigits[(i % 10) + 1]>>

ValidateTask(i, csv_index, section) ==
  [src |-> ValidateSrc(i), csv_index |-> csv_index, section |-> section]

RECURSIVE RunsTasks(_, _, _)
\* the job sequence made of the runs r..Len(runs), numbered from `first`
RunsTasks(runs, r, first) ==
  IF r > Len(runs) THEN <<>>
  ELSE [j \in 1..runs[r][3] |-> ValidateTask(first + j - 1, runs[r][1], runs[r][2])]
         \o RunsTasks(runs, r + 1, first + runs[r][3])

\* job sequences as get_csv_tasks returns them: non-empty (main, line 72),
\* the lists' jobs in list order
ValidateTaskSeqs ==
  {RunsTasks(runs, 1, 1) :
     runs \in {s \in UNION {[1..n -> (0..(csv_count - 1)) \X Sections \X RunLengths] :
                              n \in 1..MaxRuns} :
                \A i \in 1..(Len(s) - 1) : s[i][1] <= s[i + 1][1]}}

\* what the validator prints for one invocation
ValidatorOutputs == {<<>>, <<"o","k","\n">>}

InitValidate ==
  /\ tasks = <<>> /\ process_count = 1 /\ outcome = <<>> /\ task = <<>>
  /\ processes = EmptySlots(1) /\ proc = <<>> /\ dirs = {} /\ pc = "idle"
  /\ k = 1 /\ scan = 1 /\ process_avail = 0 /\ events = <<>> /\ ret = NoReturn
  /\ call \in [fn : {"validate_run_tasks"}, tasks : ValidateTaskSeqs]
  /\ result = [returned |-> FALSE,
               value |-> [at |-> "group", groups |-> <<>>, csv_index |-> -1,
                          section |-> None, g |-> 1, i |-> 1,
                          cmd_args |-> <<exe>>,
                          logs |-> [c \in 1..csv_count |-> <<>>],
                          commands |-> <<>>]]

\* mutant: a job of another section of the same list stays in the group
NewGroupByList(t, csv_index, section) == t.csv_index # csv_index

\* line 268: task.csv_index != csv_index or task.section != section
NewGroup(t, csv_index, section) == t.csv_index # csv_index \/ t.section # section

\* lines 267-272 for job i: one iteration of the grouping loop
GroupTask ==
  /\ call.fn = "validate_run_tasks" /\ result.value.at = "group"
  /\ result' =
       [result EXCEPT
          !.value.groups =
             IF NewGroup(call.tasks[result.value.i], result.value.csv_index,
                         result.value.section)
               THEN Append(@, [csv_index |-> call.tasks[result.value.i].csv_index,
                               section |-> call.tasks[result.value.i].section,
                               group_tasks |-> <<result.value.i>>])
               ELSE [@ EXCEPT ![Len(@)].group_tasks = Append(@, result.value.i)],
          !.value.csv_index = call.tasks[result.value.i].csv_index,
          !.value.section = call.tasks[result.value.i].section,
          !.value.i = IF result.value.i < Len(call.tasks) THEN @ + 1 ELSE 1,
          !.value.at = IF result.value.i < Len(call.tasks) THEN "group" ELSE "loop"]
  /\ UNCHANGED <<schedVars, call>>

\* mutant: the command is run when it holds more than 32 files
FlushDueLate(cmd_args) == Len(cmd_args) > MAX_FILES_PER_COMMAND + 1

\* line 281: len(cmd_args) >= MAX_FILES_PER_COMMAND
FlushDue(cmd_args) == Len(cmd_args) >= MAX_FILES_PER_COMMAND

RECURSIVE FillCmdArgs(_, _, _, _)
\* lines 280-284 from position i of the group up to the next run_command:
\* cmd_args and the position reached
FillCmdArgs(tks, group_tasks, i, cmd_args) ==
  IF i > Len(group_tasks) THEN [cmd_args |-> cmd_args, i |-> i]
  ELSE IF FlushDue(cmd_args) THEN [cmd_args |-> cmd_args, i |-> i]
  ELSE FillCmdArgs(tks, group_tasks, i + 1,
                   Append(cmd_args, join_path(in_path, <<tks[group_tasks[i]].src>>)))

\* the state after logs[csv_index] += run_command(cmd_args) at position
\* `filled.i` of group g; after the loop of a group the command is run only
\* if len(cmd_args) > 1 (line 285)
AfterRunCommand(v, filled, output) ==
  IF filled.i > Len(v.groups[v.g].group_tasks)
    THEN IF Len(filled.cmd_args) > 1
           THEN [v EXCEPT
                   !.logs[v.groups[v.g].csv_index + 1] = @ \o output,
                   !.commands = Append(@, [cmd_args |-> filled.cmd_args,
                                           csv_index |-> v.groups[v.g].csv_index]),
                   !.cmd_args = <<exe>>, !.g = @ + 1, !.i = 1]
           ELSE [v EXCEPT !.cmd_args = <<exe>>, !.g = @ + 1, !.i = 1]
    ELSE [v EXCEPT
            !.logs[v.groups[v.g].csv_index + 1] = @ \o output,
            !.commands = Append(@, [cmd_args |-> filled.cmd_args,
                                    csv_index |-> v.groups[v.g].csv_index]),
            !.cmd_args = <<exe>>, !.i = filled.i]

\* lines 274-286: the loops run up to and including the next run_command
RunCommand(output) ==
  /\ call.fn = "validate_run_tasks" /\ result.value.at = "loop"
  /\ result.value.g <= Len(result.value.groups)
  /\ result' =
       [result EXCEPT
          !.value = AfterRunCommand(@, FillCmdArgs(call.tasks,
                                                   @.groups[@.g].group_tasks,
                                                   @.i, @.cmd_args),
                                    output)]
  /\ UNCHANGED <<schedVars, call>>

\* run_command, line 239: subprocess.check_output raises OSError (the validator cannot be
\* started); nothing in run_tasks catches it
RunCommandRaises ==
  /\ call.fn = "validate_run_tasks" /\ result.value.at = "loop"
  /\ result.value.g <= Len(result.value.groups)
  /\ result' = [result EXCEPT !.value.at = "raised"]
  /\ UNCHANGED <<schedVars, call>>

\* line 288: return logs
ReturnLogs ==
  /\ call.fn = "validate_run_tasks" /\ result.value.at = "loop"
  /\ result.value.g > Len(result.value.groups)
  /\ result' = [result EXCEPT !.returned = TRUE, !.value.at = "returned"]
  /\ UNCHANGED <<schedVars, call>>

NextValidate ==
  \/ GroupTask
  \/ \E output \in ValidatorOutputs : RunCommand(output)
  \/ RunCommandRaises
  \/ ReturnLogs

SpecValidate == InitValidate /\ [][NextValidate]_vars

\* the files of the invocations made so far, in order
RECURSIVE FilesPassed(_, _)
FilesPassed(commands, n) ==
  IF n > Len(commands) THEN <<>>
  ELSE Tail(commands[n].cmd_args) \o FilesPassed(commands, n + 1)

\* the number of files passed before invocation n
RECURSIVE FilesBefore(_, _)
FilesBefore(commands, n) ==
  IF n <= 1 THEN 0
  ELSE FilesBefore(commands, n - 1) + Len(commands[n - 1].cmd_args) - 1

\* C30: the validator invocations pass the jobs' source paths in job order,
\* each to exactly one invocation (all of them once run_tasks returns); no
\* invocation has zero or more than MAX_FILES_PER_COMMAND files or mixes jobs of
\* different lists or sections, and its output is logged under its jobs' list.
C30_ValidatorInvocations ==
  call.fn = "validate_run_tasks" =>
    LET commands == result.value.commands
        passed == FilesPassed(commands, 1)
    IN  /\ Len(passed) <= Len(call.tasks)
        /\ \A i \in 1..Len(passed) : passed[i] = join_path(in_path, <<call.tasks[i].src>>)
        /\ result.returned => Len(passed) = Len(call.tasks)
        /\ \A n \in 1..Len(commands) :
             /\ commands[n].cmd_args[1] = exe
             /\ Len(commands[n].cmd_args) - 1 \in 1..MAX_FILES_PER_COMMAND
             /\ \A i \in 1..(Len(commands[n].cmd_args) - 1) :
                  /\ call.tasks[FilesBefore(commands, n) + i].csv_index = commands[n].csv_index
                  /\ call.tasks[FilesBefore(commands, n) + i].section
                       = call.tasks[FilesBefore(commands, n) + 1].section

\* run_tasks has returned after a group of more than 31 jobs was split and
\* jobs of two sections of one list were validated
C30_Witness ==
  /\ call.fn = "validate_run_tasks" /\ result.returned
  /\ \E n \in 1..(Len(result.value.commands) - 1) :
       /\ Len(result.value.commands[n].cmd_args) = MAX_FILES_PER_COMMAND
       /\ Len(result.value.commands[n + 1].cmd_args) = 2
  /\ \E i \in 1..(Len(call.tasks) - 1) :
       /\ call.tasks[i].csv_index = call.tasks[i + 1].csv_index
       /\ call.tasks[i].section # call.tasks[i + 1].section

=============================================================================
